---- MODULE Spec2Model ----
(***************************************************************************)
(* A model of the NexusTrader connector runtime.                           *)
(*                                                                         *)
(*   - OrderRegistry (nexustrader/core/registry.py): the two dictionaries  *)
(*     between venue order ids and client uuids and the per-id futures     *)
(*     that wait_for_order_id awaits.                                      *)
(*   - WSManager (tradebot/base.py) with the venue subscribe and           *)
(*     resubscribe hooks of KucoinWSClient and HyperLiquidWSClient: the    *)
(*     transport, the message-dispatch task, the reconnect loop and the    *)
(*     stored subscription list.                                           *)
(*   - KucoinOrderManagementSystem and HyperLiquidPrivateConnector: the    *)
(*     create, cancel and modify calls and the order statuses they emit.   *)
(*   - KucoinExecutionManagementSystem: the choice of the account type and *)
(*     the per-account submit queues; the TWAP slicer of the base EMS.     *)
(*   - KucoinRateLimiter with KucoinApiClient._fetch, and the order        *)
(*     endpoints of HyperLiquidApiClient.                                  *)
(*                                                                         *)
(* Every coroutine is cut at its awaits: one action is the code that runs  *)
(* between two suspension points of the asyncio event loop.                *)
(***************************************************************************)
EXTENDS Integers, Sequences, FiniteSets, TLC

\* Python's None.
None == "None"

(***************************************************************************)
(* OrderRegistry                                                           *)
(***************************************************************************)

\* Venue order ids (Order.id) and client ids (Order.uuid) the callers use.
OrderIds == {"e1", "e2"}
Uuids == {"o1", "o2"}

\* Number of coroutines that may call wait_for_order_id.
MaxWaiters == 2
Waiters == 1..MaxWaiters

VARIABLES
    order_id_to_uuid,   \* _order_id_to_uuid: order id -> uuid, None when absent
    uuid_to_order_id,   \* _uuid_to_order_id: uuid -> order id, None when absent
    futures,            \* _futures: order id -> <<w>>, the Future waiter w
                        \* created for it, or <<>> when the id has no entry
    fut_state,          \* state of the Future each waiter created
    wpc,                \* where each waiter is in wait_for_order_id
    wid,                \* the order_id argument of each waiter
    wtimed,             \* whether the waiter's timeout argument is truthy
    notified            \* history: register_order ran for the waiter's id
                        \* while the waiter was pending

regVars == <<order_id_to_uuid, uuid_to_order_id, futures, fut_state,
             wpc, wid, wtimed, notified>>

\* State of the WS client (described with its operations below).
VARIABLES
    venue,              \* which client class this client is
    transport,          \* _transport (and _listener): a transport, 0 for None
    tstate,             \* each transport object: "unborn", "open", "closed"
    msg_handler_task,   \* _msg_handler_task: the task serving that transport's
                        \* listener queue, 0 for None
    mtask,              \* each _msg_handler task: "none", "running",
                        \* "cancelled", "crashed"
    queue,              \* frames waiting in each listener's msg_queue
    dispatched,         \* whether _callback was called with a frame of the transport
    hpc,                \* each _connection_handler task: "none", "start",
                        \* "connecting", "waiting", "sleep"
    hwait,              \* the transport whose wait_disconnected() it awaits
    subscriptions,      \* _subscriptions, the stored list
    sent,               \* frames put on the wire, per transport, in order
    upc,                \* each user coroutine: "idle" or "connecting"
    uop,                \* what a suspended user coroutine goes on with
    disconnect_called,  \* history: the owner has called disconnect() and has
                        \* not called connect() since
    lost_subs,          \* history: the descriptors stored when the transport
                        \* in use was lost, {} outside an outage
    replay_due          \* history: per transport, the descriptors that were
                        \* stored when the transport it replaces was lost

wsVars == <<venue, transport, tstate, msg_handler_task, mtask, queue,
            dispatched, hpc, hwait, subscriptions, sent, upc, uop,
            disconnect_called, lost_subs, replay_due>>

\* State of the order management (described with its operations below).
Oids == {"a", "b"}

\* Number of OMS and connector calls made in one behaviour.
MaxCalls == 2
Calls == 1..MaxCalls

VARIABLES
    order_status,       \* the status the OMS holds for each oid, None before
                        \* the first update
    emitted,            \* the order updates published for each oid, in order
    calls,              \* the calls in flight: what each suspended coroutine
                        \* goes on with after its REST request
    ncalls,             \* number of calls started
    raised,             \* history: the last exception that left a call
    returned,           \* history: the last Order a call returned
    dropped             \* history: the last update order_status_update
                        \* dropped, <<oid, status held, status of the update>>

omsVars == <<order_status, emitted, calls, ncalls, raised, returned, dropped>>

NoCall == [op |-> "none", oid |-> None, at |-> None]
NoRaise == [op |-> "none", oid |-> None, exc |-> None]
NoReturn == [op |-> "none", oid |-> None, status |-> None,
             requested |-> FALSE, ok |-> FALSE]

OmsInit ==
    /\ order_status = [o \in Oids |-> None]
    /\ emitted = [o \in Oids |-> <<>>]
    /\ calls = [c \in Calls |-> NoCall]
    /\ ncalls = 0
    /\ raised = NoRaise
    /\ returned = NoReturn
    /\ dropped = <<>>

\* State of the execution management (described with its operations below).
KucoinAccountTypes == {"SPOT", "MARGIN", "FUTURES"}

\* Number of _submit_order calls made in one behaviour.
MaxSubmits == 2

VARIABLES
    ems_pc,             \* how far the EMS is built: "new", "wired" (the
                        \* private connectors are set), "queues" (the submit
                        \* queues are built), "ready" (_set_account_type ran)
    private_connectors, \* the keys of _private_connectors
    kucoin_spot_account_type,     \* _kucoin_spot_account_type, or None
    kucoin_futures_account_type,  \* _kucoin_futures_account_type, or None
    order_submit_queues,\* _order_submit_queues: the items of each queue
    nsubmits,           \* number of _submit_order calls made
    next_order,         \* the orders are numbered as they are submitted
    submitted,          \* history: per account type, the orders
                        \* _submit_order put on its queue, as submitted
    delivered,          \* history: per account type, the orders the
                        \* consumer took off the queue, in order
    last_submit         \* history: the last _submit_order call

emsVars == <<ems_pc, private_connectors, kucoin_spot_account_type,
             kucoin_futures_account_type, order_submit_queues, nsubmits,
             next_order, submitted, delivered, last_submit>>

NoSubmit == [subtype |-> None, account_type |-> None, target |-> None,
             exc |-> None]

EmsInit ==
    /\ ems_pc = "new"
    /\ private_connectors = {}
    /\ kucoin_spot_account_type = None
    /\ kucoin_futures_account_type = None
    /\ order_submit_queues = [at \in KucoinAccountTypes |-> <<>>]
    /\ nsubmits = 0
    /\ next_order = 1
    /\ submitted = [at \in KucoinAccountTypes |-> <<>>]
    /\ delivered = [at \in KucoinAccountTypes |-> <<>>]
    /\ last_submit = NoSubmit

\* State of the TWAP slicer (described with its operation below).
VARIABLES
    twap_call,          \* the arguments of the last _calculate_twap_orders
                        \* call, amounts in lots of 0.001
    twap_result         \* what it returned: the amounts and the wait

twapVars == <<twap_call, twap_result>>

NoTwapCall == [src |-> "none", total_amount |-> 0, duration |-> 0, wait |-> 0,
               min_order_amount |-> 0, reduce_only |-> FALSE]

TwapInit ==
    /\ twap_call = NoTwapCall
    /\ twap_result = [amount_list |-> <<>>, wait |-> [num |-> 0, den |-> 1]]

\* The REST path of the API clients (described with its operations below).
\* Number of REST requests the clients start.
MaxRequests == 2

\* Largest reading of the clock, in seconds.
MaxTime == 61

\* Capacities of the SPOT and of the FUTURES bucket (4000 and 2000 per 30 s
\* at VIP level 0, scaled down).
SpotCapacity == 2
FuturesCapacity == 1

\* Retries the retry manager is configured with (max_retries).
MaxRetries == 1

\* Length of the rate-limit window in seconds.
Window == 30

VARIABLES
    rl_now,             \* time.time()
    rate_buckets,       \* KucoinRateLimiter._rate_buckets: key -> bucket
    requests,           \* the REST requests started so far, each with its
                        \* position in the client's code
    network_calls,      \* the HTTP requests sent so far, in order
    tokens_consumed     \* tokens taken from each bucket so far

rlVars == <<rl_now, rate_buckets, requests, network_calls, tokens_consumed>>

\* The two buckets KucoinRateLimiter configures.
Scopes == {"SPOT", "FUTURES"}

\* A dictionary key that is the string s, as opposed to a tuple of strings.
StrKey(s) == <<s>>

RlInit ==
    /\ rl_now = Window
    /\ rate_buckets =
         [k \in {StrKey(s) : s \in Scopes} |->
            [capacity |-> IF k = StrKey("SPOT") THEN SpotCapacity
                          ELSE FuturesCapacity,
             tokens |-> IF k = StrKey("SPOT") THEN SpotCapacity
                        ELSE FuturesCapacity,
             last_refill |-> Window]]
    /\ requests = <<>>
    /\ network_calls = <<>>
    /\ tokens_consumed = [s \in Scopes |-> 0]

\* The Engine (described with its operations below).
\* Connectors of each kind the configuration asks for.
MaxConnectors == 2

\* Writes the runtime tasks make to the Cache.
MaxWrites == 2

VARIABLES
    engine_pc,          \* the step Engine.start() / Engine.dispose() is at
    engine_log,         \* what the engine has done so far, in order
    scheduler_started,  \* Engine._scheduler_started
    connected_public,   \* public connectors not yet disconnected
    connected_private,  \* private connectors not yet disconnected
    runtime_tasks,      \* tasks the TaskManager tracks
    cache_memory,       \* version of the Cache's in-memory contents
    cache_backend,      \* version the persistence backend holds
    last_write_pc       \* engine_pc at the last write to the Cache

engineVars == <<engine_pc, engine_log, scheduler_started, connected_public,
                connected_private, runtime_tasks, cache_memory, cache_backend,
                last_write_pc>>

EngineInit ==
    /\ engine_pc = "new"
    /\ engine_log = <<>>
    /\ scheduler_started = FALSE
    /\ connected_public = 0
    /\ connected_private = 0
    /\ runtime_tasks = {}
    /\ cache_memory = 0
    /\ cache_backend = 0
    /\ last_write_pc = None

\* Set-up of a KuCoin private connector (described with its operations
\* below).
\* Largest balance and position the venue reports.
MaxVenueAmount == 2

VARIABLES
    ks_pc,              \* the step of the set-up that runs next
    ks_account_type,    \* self._account_type
    venue_position_mode,\* the account's position mode at the venue: 1 is
                        \* one-way, 2 is hedge
    venue_balance,      \* the balance the venue holds for the account
    venue_position,     \* the signed position the venue holds
    ks_cache_balance,   \* balances applied to the Cache: <<>> or <<b>>
    ks_cache_position,  \* positions applied to the Cache: <<>> or <<p>>
    ks_rest_ok,         \* every REST call of the set-up was answered so far
    ks_warnings         \* warnings logged by the set-up

ksVars == <<ks_pc, ks_account_type, venue_position_mode, venue_balance,
            venue_position, ks_cache_balance, ks_cache_position, ks_rest_ok,
            ks_warnings>>

KsInit ==
    /\ ks_pc = "new"
    /\ ks_account_type = None
    /\ venue_position_mode = 1
    /\ venue_balance = 0
    /\ venue_position = 0
    /\ ks_cache_balance = <<>>
    /\ ks_cache_position = <<>>
    /\ ks_rest_ok = TRUE
    /\ ks_warnings = 0

\* KucoinPublicConnector.request_klines (described with its operations
\* below).
\* Bars the venue holds, bars it returns per page, and the longest list the
\* call is followed to.
NBars == 3
PageCap == 2
MaxKlines == 5

\* Seconds between the starts of two consecutive bars of the venue.
BarSeconds == 60

VARIABLES
    kl_pc,              \* idle, paging, returned or raised
    kl_args,            \* the arguments of the call and the venue's behaviour
    kl_next_start,      \* next_start: <<>> for None, else <<time>>
    kl_remaining,       \* remaining: <<>> for None, else <<n>>
    all_klines,         \* start times (seconds) of the klines collected
    kl_exc              \* the exception request_klines raised

klVars == <<kl_pc, kl_args, kl_next_start, kl_remaining, all_klines, kl_exc>>

NoKlArgs == [account_type |-> None, client |-> None, order |-> None]

KlInit ==
    /\ kl_pc = "idle"
    /\ kl_args = NoKlArgs
    /\ kl_next_start = <<>>
    /\ kl_remaining = <<>>
    /\ all_klines = <<>>
    /\ kl_exc = None

\* MockLinearConnector (described with its operations below).
\* Orders created in one behaviour, largest order amount, largest position
\* followed, and the unit of prices and balances: a price is 1..MaxPrice units
\* and the fee rate is 1 / PriceUnit, so that every fee is a whole number.
MaxOrders == 4
MaxAmount == 2
MaxPosition == 2
MaxPrice == 3
PriceUnit == 10

\* leverage, as MockLinearConnector.__init__ defaults it.
Leverage == 1

VARIABLES
    mock_pc,            \* "new" until connect() has run, then "connected"
    mock_balance,       \* the quote Balance in the Cache: <<>> or <<[free, locked]>>
    mock_position,      \* the Position last written to the Cache: <<>> or <<p>>
    mock_book,          \* bookl1 price of the symbol, 0 while there is none
    mock_orders,        \* create_order calls so far
    mock_result,        \* outcome of the last create_order
    mock_reduce_only    \* reduce_only of the last create_order

mockVars ==
    <<mock_pc, mock_balance, mock_position, mock_book, mock_orders,
      mock_result, mock_reduce_only>>

MockInit ==
    /\ mock_pc = "new"
    /\ mock_balance = <<>>
    /\ mock_position = <<>>
    /\ mock_book = 0
    /\ mock_orders = 0
    /\ mock_result = None
    /\ mock_reduce_only = FALSE

\* create_batch_orders (described with its operations below).
\* Longest batch submitted.
MaxBatch == 2

VARIABLES
    batch_pc,           \* idle, hl_await, kucoin_loop, returned or raised
    batch_orders,       \* the orders submitted: [known, is_market]
    batch_account_type, \* account type of the KuCoin OMS that got the batch
    batch_outcomes,     \* what the venue did with each order
    batch_results       \* the Orders returned: [order, status, id]

batchVars ==
    <<batch_pc, batch_orders, batch_account_type, batch_outcomes,
      batch_results>>

BatchInit ==
    /\ batch_pc = "idle"
    /\ batch_orders = <<>>
    /\ batch_account_type = None
    /\ batch_outcomes = <<>>
    /\ batch_results = <<>>

\* Overlapping _subscribe calls (described with their operations below).
\* Coroutines that may be inside _subscribe at once.
MaxCallers == 2

VARIABLES
    sub_venue,          \* the client class, None before the client is made
    sub_connected,      \* whether the client holds a transport
    sub_stored,         \* _subscriptions
    sub_sent,           \* the frames sent, in order
    sub_pc,             \* each caller: "idle", or "connecting" in connect()
    sub_new             \* new_topics / msgs each suspended caller holds

subVars ==
    <<sub_venue, sub_connected, sub_stored, sub_sent, sub_pc, sub_new>>

SubInit ==
    /\ sub_venue = None
    /\ sub_connected = FALSE
    /\ sub_stored = <<>>
    /\ sub_sent = <<>>
    /\ sub_pc = [c \in 1..MaxCallers |-> "idle"]
    /\ sub_new = [c \in 1..MaxCallers |-> <<>>]

\* The subscription pass of Engine._start_connectors (described with its
\* operations below).
\* Intervals (levels) the strategy may declare for one data type.
MaxIntervals == 2

VARIABLES
    sc_pc,              \* "idle", "subscribing", "done" or "error"
    sc_data_type,       \* "kline" or "bookl2", None before the pass
    sc_sub,             \* the strategy's declaration: <<[param, symbols]>>
    sc_connectors,      \* account types that have a public connector
    sc_next,            \* index in sc_sub of the next interval (level)
    account_symbols,    \* <<[account_type, symbols]>> in insertion order
    sc_calls            \* subscribe calls issued: [account_type, symbols, param]

scVars ==
    <<sc_pc, sc_data_type, sc_sub, sc_connectors, sc_next, account_symbols,
      sc_calls>>

ScInit ==
    /\ sc_pc = "idle"
    /\ sc_data_type = None
    /\ sc_sub = <<>>
    /\ sc_connectors = {}
    /\ sc_next = 1
    /\ account_symbols = <<>>
    /\ sc_calls = <<>>

\* Variables of the other components; the operations of one component leave
\* them alone.
notRegVars ==
    <<wsVars, omsVars, emsVars, twapVars, rlVars,
      engineVars, ksVars, klVars, mockVars, batchVars,
      subVars, scVars>>
notWsVars ==
    <<regVars, omsVars, emsVars, twapVars, rlVars,
      engineVars, ksVars, klVars, mockVars, batchVars,
      subVars, scVars>>
notOmsVars ==
    <<regVars, wsVars, emsVars, twapVars, rlVars,
      engineVars, ksVars, klVars, mockVars, batchVars,
      subVars, scVars>>
notEmsVars ==
    <<regVars, wsVars, omsVars, twapVars, rlVars,
      engineVars, ksVars, klVars, mockVars, batchVars,
      subVars, scVars>>
notTwapVars ==
    <<regVars, wsVars, omsVars, emsVars, rlVars,
      engineVars, ksVars, klVars, mockVars, batchVars,
      subVars, scVars>>
notRlVars ==
    <<regVars, wsVars, omsVars, emsVars, twapVars,
      engineVars, ksVars, klVars, mockVars, batchVars,
      subVars, scVars>>
notEngineVars ==
    <<regVars, wsVars, omsVars, emsVars, twapVars,
      rlVars, ksVars, klVars, mockVars, batchVars,
      subVars, scVars>>
notKsVars ==
    <<regVars, wsVars, omsVars, emsVars, twapVars,
      rlVars, engineVars, klVars, mockVars, batchVars,
      subVars, scVars>>
notKlVars ==
    <<regVars, wsVars, omsVars, emsVars, twapVars,
      rlVars, engineVars, ksVars, mockVars, batchVars,
      subVars, scVars>>
notMockVars ==
    <<regVars, wsVars, omsVars, emsVars, twapVars,
      rlVars, engineVars, ksVars, klVars, batchVars,
      subVars, scVars>>
notBatchVars ==
    <<regVars, wsVars, omsVars, emsVars, twapVars,
      rlVars, engineVars, ksVars, klVars, mockVars,
      subVars, scVars>>
notSubVars ==
    <<regVars, wsVars, omsVars, emsVars, twapVars,
      rlVars, engineVars, ksVars, klVars, mockVars,
      batchVars, scVars>>
notScVars ==
    <<regVars, wsVars, omsVars, emsVars, twapVars,
      rlVars, engineVars, ksVars, klVars, mockVars,
      batchVars, subVars>>

vars == <<regVars, notRegVars>>

RegistryInit ==
    /\ order_id_to_uuid = [i \in OrderIds |-> None]
    /\ uuid_to_order_id = [u \in Uuids |-> None]
    /\ futures = [i \in OrderIds |-> <<>>]
    /\ fut_state = [w \in Waiters |-> "none"]
    /\ wpc = [w \in Waiters |-> "idle"]
    /\ wid = [w \in Waiters |-> None]
    /\ wtimed = [w \in Waiters |-> FALSE]
    /\ notified = [w \in Waiters |-> FALSE]

get_order_id(uuid) == uuid_to_order_id[uuid]

get_uuid(order_id) == order_id_to_uuid[order_id]

\* A waiter is pending while its coroutine is suspended on a Future that is
\* not done.
Pending(w) == wpc[w] = "waiting" /\ fut_state[w] = "pending"

\* Lines 20-21 of register_order: the Future stored for the id, if it is not
\* done, gets its result.
ReleaseFutures(id) ==
    IF futures[id] # <<>> /\ fut_state[futures[id][1]] = "pending"
    THEN [fut_state EXCEPT ![futures[id][1]] = "result"]
    ELSE fut_state

register_order(id, uuid) ==
    /\ order_id_to_uuid' = [order_id_to_uuid EXCEPT ![id] = uuid]
    /\ uuid_to_order_id' = [uuid_to_order_id EXCEPT ![uuid] = id]
    /\ fut_state' = ReleaseFutures(id)
    /\ notified' = [w \in Waiters |->
                      notified[w] \/ (Pending(w) /\ wid[w] = id)]
    /\ UNCHANGED <<futures, wpc, wid, wtimed>>
    /\ UNCHANGED notRegVars

remove_order(id, uuid) ==
    /\ order_id_to_uuid' = [order_id_to_uuid EXCEPT ![id] = None]
    /\ uuid_to_order_id' = [uuid_to_order_id EXCEPT ![uuid] = None]
    /\ UNCHANGED <<futures, fut_state, wpc, wid, wtimed, notified>>
    /\ UNCHANGED notRegVars

\* wait_for_order_id up to its await: a fresh Future replaces whatever was
\* stored for the id; a truthy timeout arms asyncio.wait_for's timer.
wait_for_order_id(w, id, timed) ==
    /\ wpc[w] = "idle"
    /\ futures' = [futures EXCEPT ![id] = <<w>>]
    /\ fut_state' = [fut_state EXCEPT ![w] = "pending"]
    /\ wpc' = [wpc EXCEPT ![w] = "waiting"]
    /\ wid' = [wid EXCEPT ![w] = id]
    /\ wtimed' = [wtimed EXCEPT ![w] = timed]
    /\ UNCHANGED <<order_id_to_uuid, uuid_to_order_id, notified>>
    /\ UNCHANGED notRegVars

\* asyncio.wait_for's timer fires while the Future is pending: the Future is
\* cancelled and TimeoutError leaves wait_for_order_id before line 41.
wait_timeout(w) ==
    /\ Pending(w)
    /\ wtimed[w]
    /\ fut_state' = [fut_state EXCEPT ![w] = "cancelled"]
    /\ wpc' = [wpc EXCEPT ![w] = "timeout"]
    /\ UNCHANGED <<order_id_to_uuid, uuid_to_order_id, futures, wid, wtimed,
                   notified>>
    /\ UNCHANGED notRegVars

\* The waiter resumes after its Future got a result: line 41 pops the id,
\* which raises KeyError when the entry is gone.
wait_resume(w) ==
    /\ wpc[w] = "waiting"
    /\ fut_state[w] = "result"
    /\ IF futures[wid[w]] = <<>>
       THEN /\ wpc' = [wpc EXCEPT ![w] = "keyerror"]
            /\ UNCHANGED futures
       ELSE /\ wpc' = [wpc EXCEPT ![w] = "ok"]
            /\ futures' = [futures EXCEPT ![wid[w]] = <<>>]
    /\ UNCHANGED <<order_id_to_uuid, uuid_to_order_id, fut_state, wid, wtimed,
                   notified>>
    /\ UNCHANGED notRegVars

RegistryNext ==
    \/ \E id \in OrderIds, uuid \in Uuids : register_order(id, uuid)
    \/ \E id \in OrderIds, uuid \in Uuids : remove_order(id, uuid)
    \/ \E w \in Waiters, id \in OrderIds, timed \in BOOLEAN :
          wait_for_order_id(w, id, timed)
    \/ \E w \in Waiters : wait_timeout(w)
    \/ \E w \in Waiters : wait_resume(w)

\* C1: registry duality -- in every reachable state, for all order ids and
\* uuids, get_uuid(id) = uuid exactly when get_order_id(uuid) = id; no
\* mapping is left one-sided by register_order and remove_order.
C1_RegistryDuality ==
    \A id \in OrderIds, uuid \in Uuids :
        (get_uuid(id) = uuid) <=> (get_order_id(uuid) = id)

\* C2: a wait with a timeout during which register_order ran for its id
\* completes successfully: its Future has its result and the call returns
\* normally, it neither stays pending, nor times out, nor raises.
C2_WaitCompletesOnRegister ==
    \A w \in Waiters :
        (wtimed[w] /\ notified[w]) =>
            \/ wpc[w] = "ok"
            \/ (wpc[w] = "waiting" /\ fut_state[w] = "result")

\* C3: when register_order runs for an id, the Future of every waiter that
\* is pending on that id is completed, however many wait at once.
C3_RegisterCompletesAllWaiters ==
    \A w \in Waiters : notified[w] => fut_state[w] = "result"

\* C33: no lost wake-up: a wait_for_order_id(id) that is called when
\* register_order has already linked the id does not block; its Future is
\* complete when the call reaches its await.
C33_NoLostWakeup ==
    [][\A w \in Waiters :
          (/\ wpc[w] = "idle"
           /\ wpc'[w] = "waiting"
           /\ get_uuid(wid'[w]) # None) => fut_state'[w] = "result"]_vars

(***************************************************************************)
(* WSManager and the venue WS clients                                      *)
(***************************************************************************)

\* The client classes modelled: KucoinWSClient, HyperLiquidWSClient (which
\* subscribe) and KucoinWSApiClient (whose connect() logs in).
Venues == {"kucoin", "hyperliquid", "kucoin_api"}

\* Strings are sequences of characters, so that the "topic|symbol" keys of
\* KucoinWSClient are built and split the way the code builds and splits them.
Topics == {<<"m">>}
Symbols == {<<"A">>, <<"B">>}
Descriptors == [topic : Topics, symbol : Symbols]

\* Transports ws_connect may hand out, reconnect loops that may be spawned,
\* user coroutines, the longest descriptor list of one subscribe call, the
\* frames a listener queue holds, and the login frames counted per transport.
MaxTransports == 2
MaxHandlers == 2
MaxUsers == 1
MaxTopics == 2
MaxQueue == 1
MaxLogins == 2

Transports == 1..MaxTransports
Handlers == 1..MaxHandlers
Users == 1..MaxUsers

RECURSIVE SeqsUpTo(_, _)
SeqsUpTo(S, n) ==
    IF n = 0 THEN {<<>>}
    ELSE LET shorter == SeqsUpTo(S, n - 1)
         IN shorter \cup {Append(q, x) : q \in shorter, x \in S}

\* The descriptor lists a caller may pass to _subscribe.
TopicLists == SeqsUpTo(Descriptors, MaxTopics)

NoOp == [kind |-> "none", topics |-> <<>>]

WSInit ==
    /\ venue \in Venues
    /\ transport = 0
    /\ tstate = [t \in Transports |-> "unborn"]
    /\ msg_handler_task = 0
    /\ mtask = [t \in Transports |-> "none"]
    /\ queue = [t \in Transports |-> 0]
    /\ dispatched = [t \in Transports |-> FALSE]
    /\ hpc = [h \in Handlers |-> "none"]
    /\ hwait = [h \in Handlers |-> 0]
    /\ subscriptions = <<>>
    /\ sent = [t \in Transports |-> <<>>]
    /\ upc = [u \in Users |-> "idle"]
    /\ uop = [u \in Users |-> NoOp]
    /\ disconnect_called = FALSE
    /\ lost_subs = {}
    /\ replay_due = [t \in Transports |-> {}]

connected == transport # 0

\* ---- strings and payloads ----------------------------------------------

\* f"{t['topic']}|{t.get('symbol', '')}"
KeyOf(d) == d.topic \o <<"|">> \o d.symbol

HasBar(key) == \E i \in 1..Len(key) : key[i] = "|"

\* key.split("|", 1): cut at the first "|".
SplitKey(key) ==
    LET idx == CHOOSE i \in 1..Len(key) :
                   key[i] = "|" /\ \A j \in 1..(i - 1) : key[j] # "|"
    IN [topic |-> SubSeq(key, 1, idx - 1),
        symbol |-> SubSeq(key, idx + 1, Len(key))]

InSeq(x, q) == \E i \in 1..Len(q) : q[i] = x

\* The elements of q in order of first appearance.
RECURSIVE FirstSeen(_)
FirstSeen(q) ==
    IF q = <<>> THEN <<>>
    ELSE LET front == FirstSeen(SubSeq(q, 1, Len(q) - 1))
             x == q[Len(q)]
         IN IF InSeq(x, front) THEN front ELSE Append(front, x)

SubscribeFrame(topic, symbols, by) ==
    [type |-> "subscribe", topic |-> topic, symbols |-> symbols, by |-> by]

LoginFrame == [type |-> "login", topic |-> <<>>, symbols |-> {}, by |-> "connect"]

\* The frame of _manage_private_subscription: the topic alone, with
\* privateChannel set.
PrivateSubscribeFrame(topic) ==
    [type |-> "subscribe", topic |-> topic, symbols |-> {}, by |-> "private"]

\* The frame of KucoinWSApiClient.add_order (op "order") or cancel_order
\* (op "cancel").
OrderFrame(op) ==
    [type |-> op, topic |-> <<>>, symbols |-> {}, by |-> "ws_api"]

\* A subscribe frame asks the venue for descriptor d.
Covers(f, d) ==
    f.type = "subscribe" /\ f.topic = d.topic /\ d.symbol \in f.symbols

\* _send: the frame reaches the wire of an open transport; on a transport
\* that has closed nothing is transmitted.
Send(snt, t, frames) ==
    IF tstate[t] = "open" THEN [snt EXCEPT ![t] = @ \o frames] ELSE snt

\* ---- KucoinWSClient -----------------------------------------------------

\* Lines 36-42 of KucoinWSClient._subscribe: the loop that filters topics
\* against the stored keys and appends each new key at once.  Returns the
\* stored list and new_topics.
RECURSIVE KucoinFilter(_, _)
KucoinFilter(stored, topics) ==
    IF topics = <<>> THEN [stored |-> stored, new |-> <<>>]
    ELSE LET head == KucoinFilter(stored, SubSeq(topics, 1, Len(topics) - 1))
             t == topics[Len(topics)]
         IN IF InSeq(KeyOf(t), head.stored)
            THEN head
            ELSE [stored |-> Append(head.stored, KeyOf(t)),
                  new |-> Append(head.new, t)]

\* Lines 49-55: one frame, topic of the first new topic, the set of symbols.
KucoinSubscribePayload(new) ==
    <<SubscribeFrame(new[1].topic,
                     {new[i].symbol : i \in 1..Len(new)}, "subscribe")>>

\* KucoinWSClient._resubscribe: keys grouped by topic, one frame per topic.
KucoinResubscribePayload(stored) ==
    LET keys == SelectSeq(stored, HasBar)
        topics == FirstSeen([i \in 1..Len(keys) |-> SplitKey(keys[i]).topic])
        Frame(tp) ==
            SubscribeFrame(tp,
                {SplitKey(keys[i]).symbol :
                    i \in {j \in 1..Len(keys) : SplitKey(keys[j]).topic = tp}},
                "resubscribe")
    IN [i \in 1..Len(topics) |-> Frame(topics[i])]

\* ---- HyperLiquidWSClient ------------------------------------------------

\* Line 43 of HyperLiquidWSClient._subscribe.
HyperliquidFilter(stored, msgs) ==
    LET Fresh(m) == ~InSeq(m, stored) IN SelectSeq(msgs, Fresh)

\* Lines 45-54 and 57-63: one frame per message.
HyperliquidPayload(msgs, by) ==
    [i \in 1..Len(msgs) |-> SubscribeFrame(msgs[i].topic, {msgs[i].symbol}, by)]

\* ---- the _resubscribe hook of the client's class ------------------------

ResubscribePayload(stored) ==
    CASE venue = "kucoin" -> KucoinResubscribePayload(stored)
      [] venue = "hyperliquid" -> HyperliquidPayload(stored, "resubscribe")
      [] OTHER -> <<>>

\* ---- WSManager ----------------------------------------------------------

\* The transport object the next successful ws_connect returns, and the
\* task slot of the next _connection_handler task.
NewTransport == CHOOSE t \in Transports :
                    tstate[t] = "unborn" /\ \A x \in 1..(t - 1) : tstate[x] # "unborn"
NewHandler == CHOOSE h \in Handlers :
                  hpc[h] = "none" /\ \A x \in 1..(h - 1) : hpc[x] # "none"

\* Task.cancel(): a task that has finished is not affected.
Cancel(tasks, k) ==
    IF k # 0 /\ tasks[k] = "running" THEN [tasks EXCEPT ![k] = "cancelled"]
    ELSE tasks

Logins(t) == Len(SelectSeq(sent[t], LAMBDA f : f.type = "login"))

\* What a caller of connect() does once connect() has returned: the rest of
\* _subscribe (the stored list and the frames to send), or the login frame
\* of KucoinWSApiClient.connect.
AfterConnect(op) ==
    CASE op.kind = "subscribe" /\ venue = "kucoin" ->
            [stored |-> subscriptions,
             frames |-> KucoinSubscribePayload(op.topics)]
      [] op.kind = "subscribe" /\ venue = "hyperliquid" ->
            [stored |-> subscriptions \o op.topics,
             frames |-> HyperliquidPayload(op.topics, "subscribe")]
      [] op.kind = "connect" /\ venue = "kucoin_api" ->
            [stored |-> subscriptions, frames |-> <<LoginFrame>>]
      [] op.kind = "private_subscribe" /\ venue = "kucoin" ->
            [stored |-> subscriptions,
             frames |-> <<PrivateSubscribeFrame(op.topics[1])>>]
      [] op.kind = "cancel_order_ws" /\ venue = "kucoin_api" ->
            [stored |-> subscriptions,
             frames |-> <<LoginFrame, OrderFrame("cancel")>>]
      [] OTHER -> [stored |-> subscriptions, frames |-> <<>>]

\* A call of connect() and what follows it in the caller.  With a transport
\* in place connect() returns without suspending and the caller goes on at
\* once; otherwise the caller is suspended in `await self._connect()`.
CallConnect(u, op) ==
    /\ disconnect_called' = FALSE
    /\ IF connected
       THEN /\ subscriptions' = AfterConnect(op).stored
            /\ sent' = Send(sent, transport, AfterConnect(op).frames)
            /\ UNCHANGED <<upc, uop>>
       ELSE /\ upc' = [upc EXCEPT ![u] = "connecting"]
            /\ uop' = [uop EXCEPT ![u] = op]
            /\ UNCHANGED <<subscriptions, sent>>

\* KucoinWSClient._subscribe up to its first suspension.
kucoin_subscribe(u, topics) ==
    /\ venue = "kucoin"
    /\ upc[u] = "idle"
    /\ LET r == KucoinFilter(subscriptions, topics)
       IN IF r.new = <<>>
          THEN UNCHANGED <<subscriptions, sent, upc, uop, disconnect_called>>
          ELSE /\ subscriptions' = r.stored
               /\ disconnect_called' = FALSE
               /\ IF connected
                  THEN /\ sent' = Send(sent, transport,
                                       KucoinSubscribePayload(r.new))
                       /\ UNCHANGED <<upc, uop>>
                  ELSE /\ upc' = [upc EXCEPT ![u] = "connecting"]
                       /\ uop' = [uop EXCEPT ![u] =
                                     [kind |-> "subscribe", topics |-> r.new]]
                       /\ UNCHANGED sent
    /\ UNCHANGED <<venue, transport, tstate, msg_handler_task, mtask, queue,
                   dispatched, hpc, hwait>>
    /\ UNCHANGED <<lost_subs, replay_due>>
    /\ UNCHANGED notWsVars

\* HyperLiquidWSClient._subscribe up to its first suspension.
hyperliquid_subscribe(u, msgs) ==
    /\ venue = "hyperliquid"
    /\ upc[u] = "idle"
    /\ CallConnect(u, [kind |-> "subscribe",
                       topics |-> HyperliquidFilter(subscriptions, msgs)])
    /\ UNCHANGED <<venue, transport, tstate, msg_handler_task, mtask, queue,
                   dispatched, hpc, hwait>>
    /\ UNCHANGED <<lost_subs, replay_due>>
    /\ UNCHANGED notWsVars

\* WSManager.connect called by the owner; on KucoinWSApiClient the override
\* that sends the login frame after it.
connect(u) ==
    /\ upc[u] = "idle"
    /\ (venue = "kucoin_api" /\ connected) => Logins(transport) < MaxLogins
    /\ CallConnect(u, [kind |-> "connect", topics |-> <<>>])
    /\ UNCHANGED <<venue, transport, tstate, msg_handler_task, mtask, queue,
                   dispatched, hpc, hwait>>
    /\ UNCHANGED <<lost_subs, replay_due>>
    /\ UNCHANGED notWsVars

\* connect() lines 413-419 once ws_connect has returned: the new transport
\* and listener are stored, a _msg_handler task and a _connection_handler
\* task are created, and the caller goes on.
connect_opened(u) ==
    /\ upc[u] = "connecting"
    /\ \E t \in Transports : tstate[t] = "unborn"
    /\ \E h \in Handlers : hpc[h] = "none"
    /\ LET t == NewTransport
           h == NewHandler
           after == AfterConnect(uop[u])
       IN /\ transport' = t
          /\ tstate' = [tstate EXCEPT ![t] = "open"]
          /\ msg_handler_task' = t
          /\ mtask' = [mtask EXCEPT ![t] = "running"]
          /\ hpc' = [hpc EXCEPT ![h] = "start"]
          /\ subscriptions' = after.stored
          /\ sent' = [sent EXCEPT ![t] = @ \o after.frames]
          /\ replay_due' = [replay_due EXCEPT ![t] = lost_subs]
          /\ lost_subs' = {}
    /\ upc' = [upc EXCEPT ![u] = "idle"]
    /\ uop' = [uop EXCEPT ![u] = NoOp]
    /\ UNCHANGED <<venue, queue, dispatched, hwait, disconnect_called>>
    /\ UNCHANGED notWsVars

\* ws_connect raises inside connect(): the exception leaves connect() and
\* the caller's _subscribe.
connect_failed(u) ==
    /\ upc[u] = "connecting"
    /\ upc' = [upc EXCEPT ![u] = "idle"]
    /\ uop' = [uop EXCEPT ![u] = NoOp]
    /\ UNCHANGED <<venue, transport, tstate, msg_handler_task, mtask, queue,
                   dispatched, hpc, hwait, subscriptions, sent,
                   disconnect_called>>
    /\ UNCHANGED <<lost_subs, replay_due>>
    /\ UNCHANGED notWsVars

\* _connection_handler at the top of its loop (a task that starts, or one
\* that wakes from asyncio.sleep): lines 422-425 and 430 up to the await.
connection_handler_loop(h) ==
    /\ hpc[h] \in {"start", "sleep"}
    /\ IF connected
       THEN /\ hpc' = [hpc EXCEPT ![h] = "waiting"]
            /\ hwait' = [hwait EXCEPT ![h] = transport]
       ELSE /\ hpc' = [hpc EXCEPT ![h] = "connecting"]
            /\ UNCHANGED hwait
    /\ UNCHANGED <<venue, transport, tstate, msg_handler_task, mtask, queue,
                   dispatched, subscriptions, sent, upc, uop,
                   disconnect_called>>
    /\ UNCHANGED <<lost_subs, replay_due>>
    /\ UNCHANGED notWsVars

\* Lines 425-430 once ws_connect has returned: the transport is stored, a
\* _msg_handler task is created, _resubscribe sends its frames, and the
\* loop awaits wait_disconnected() of the new transport.
connection_handler_opened(h) ==
    /\ hpc[h] = "connecting"
    /\ \E t \in Transports : tstate[t] = "unborn"
    /\ LET t == NewTransport
       IN /\ transport' = t
          /\ tstate' = [tstate EXCEPT ![t] = "open"]
          /\ msg_handler_task' = t
          /\ mtask' = [mtask EXCEPT ![t] = "running"]
          /\ sent' = [sent EXCEPT ![t] = @ \o ResubscribePayload(subscriptions)]
          /\ hpc' = [hpc EXCEPT ![h] = "waiting"]
          /\ hwait' = [hwait EXCEPT ![h] = t]
          /\ replay_due' = [replay_due EXCEPT ![t] = lost_subs]
          /\ lost_subs' = {}
    /\ UNCHANGED <<venue, queue, dispatched, subscriptions, upc, uop,
                   disconnect_called>>
    /\ UNCHANGED notWsVars

\* Lines 431-438, the except and finally blocks: the task the client holds
\* is cancelled, transport and listener are dropped, the loop sleeps.
ConnectionHandlerFinally(h) ==
    /\ mtask' = Cancel(mtask, msg_handler_task)
    /\ transport' = 0
    /\ hpc' = [hpc EXCEPT ![h] = "sleep"]
    /\ hwait' = [hwait EXCEPT ![h] = 0]
    /\ UNCHANGED <<venue, tstate, msg_handler_task, queue, dispatched,
                   subscriptions, sent, upc, uop, disconnect_called>>
    /\ UNCHANGED <<lost_subs, replay_due>>
    /\ UNCHANGED notWsVars

\* The loop without its except and finally blocks: the exception of a
\* failed open ends the task.
connection_handler_error_uncaught(h) ==
    /\ hpc[h] = "connecting"
    /\ hpc' = [hpc EXCEPT ![h] = "done"]
    /\ UNCHANGED <<venue, transport, tstate, msg_handler_task, mtask, queue,
                   dispatched, hwait, subscriptions, sent, upc, uop,
                   disconnect_called, lost_subs, replay_due>>
    /\ UNCHANGED notWsVars

\* ws_connect raises in the loop (a failed open).
connection_handler_error(h) ==
    /\ hpc[h] = "connecting"
    /\ ConnectionHandlerFinally(h)

\* wait_disconnected() returns: the awaited transport has closed.
connection_handler_disconnected(h) ==
    /\ hpc[h] = "waiting"
    /\ tstate[hwait[h]] = "closed"
    /\ ConnectionHandlerFinally(h)

\* The descriptor a stored entry stands for: KucoinWSClient stores keys,
\* HyperLiquidWSClient the subscription messages themselves.
StoredDescriptors ==
    {IF venue = "kucoin" THEN SplitKey(subscriptions[i]) ELSE subscriptions[i] :
        i \in 1..Len(subscriptions)}

\* History kept when transport t closes: if t is the open transport in use,
\* the subscriptions present before this disconnect.
LostSubs(t) ==
    IF t # 0 /\ t = transport /\ tstate[t] = "open" THEN StoredDescriptors
    ELSE lost_subs

\* WSManager.disconnect, called by the owner.
disconnect ==
    /\ disconnect_called' = TRUE
    /\ tstate' = IF connected THEN [tstate EXCEPT ![transport] = "closed"]
                 ELSE tstate
    /\ lost_subs' = LostSubs(transport)
    /\ UNCHANGED replay_due
    /\ UNCHANGED <<venue, transport, msg_handler_task, mtask, queue,
                   dispatched, hpc, hwait, subscriptions, sent, upc, uop>>
    /\ UNCHANGED notWsVars

\* The transport is lost: server close, heartbeat miss or I/O error.
transport_lost(t) ==
    /\ tstate[t] = "open"
    /\ tstate' = [tstate EXCEPT ![t] = "closed"]
    /\ lost_subs' = LostSubs(t)
    /\ UNCHANGED <<venue, transport, msg_handler_task, mtask, queue,
                   dispatched, hpc, hwait, subscriptions, sent, upc, uop,
                   disconnect_called, replay_due>>
    /\ UNCHANGED notWsVars

\* WSClient.on_ws_frame: a frame of an open transport is queued.
on_ws_frame(t) ==
    /\ tstate[t] = "open"
    /\ queue[t] < MaxQueue
    /\ queue' = [queue EXCEPT ![t] = @ + 1]
    /\ UNCHANGED <<venue, transport, tstate, msg_handler_task, mtask,
                   dispatched, hpc, hwait, subscriptions, sent, upc, uop,
                   disconnect_called>>
    /\ UNCHANGED <<lost_subs, replay_due>>
    /\ UNCHANGED notWsVars

\* One turn of _msg_handler's loop: a frame is taken from the queue and
\* handed to _callback; if _callback raises, the exception leaves the
\* coroutine and the task ends.
msg_handler(t, raises) ==
    /\ mtask[t] = "running"
    /\ queue[t] > 0
    /\ queue' = [queue EXCEPT ![t] = @ - 1]
    /\ dispatched' = [dispatched EXCEPT ![t] = TRUE]
    /\ mtask' = IF raises THEN [mtask EXCEPT ![t] = "crashed"] ELSE mtask
    /\ UNCHANGED <<venue, transport, tstate, msg_handler_task, hpc, hwait,
                   subscriptions, sent, upc, uop, disconnect_called>>
    /\ UNCHANGED <<lost_subs, replay_due>>
    /\ UNCHANGED notWsVars

Init ==
    /\ RegistryInit /\ WSInit /\ OmsInit /\ EmsInit /\ TwapInit /\ RlInit
    /\ EngineInit /\ KsInit /\ KlInit /\ MockInit /\ BatchInit /\ SubInit /\ ScInit

WSNext ==
    \/ \E u \in Users, topics \in TopicLists : kucoin_subscribe(u, topics)
    \/ \E u \in Users, msgs \in TopicLists : hyperliquid_subscribe(u, msgs)
    \/ \E u \in Users : connect(u)
    \/ \E u \in Users : connect_opened(u)
    \/ \E u \in Users : connect_failed(u)
    \/ \E h \in Handlers : connection_handler_loop(h)
    \/ \E h \in Handlers : connection_handler_opened(h)
    \/ \E h \in Handlers : connection_handler_error(h)
    \/ \E h \in Handlers : connection_handler_disconnected(h)
    \/ disconnect
    \/ \E t \in Transports : transport_lost(t)
    \/ \E t \in Transports : on_ws_frame(t)
    \/ \E t \in Transports, raises \in BOOLEAN : msg_handler(t, raises)

WSSpec == Init /\ [][WSNext]_vars

\* ---- private channels of KucoinWSClient ---------------------------------

\* Topics of the private channels (orders, balance, positions) and the
\* number of private subscribe frames followed on one transport.
PrivateTopics == {<<"o">>, <<"b">>}
MaxPrivateFrames == 1

PrivateFrames(t) == Len(SelectSeq(sent[t], LAMBDA f : f.by = "private"))

\* KucoinWSClient._manage_private_subscription("subscribe", topic), as
\* subscribe_order_v2, subscribe_balance, subscribe_futures_positions call
\* it: connect(), then the frame; _subscriptions is not touched.
kucoin_private_subscribe(u, topic) ==
    /\ venue = "kucoin"
    /\ upc[u] = "idle"
    /\ connected => PrivateFrames(transport) < MaxPrivateFrames
    /\ CallConnect(u, [kind |-> "private_subscribe", topics |-> <<topic>>])
    /\ UNCHANGED <<venue, transport, tstate, msg_handler_task, mtask, queue,
                   dispatched, hpc, hwait>>
    /\ UNCHANGED <<lost_subs, replay_due>>
    /\ UNCHANGED notWsVars

WsPrivateNext ==
    \/ \E u \in Users, topic \in PrivateTopics :
          kucoin_private_subscribe(u, topic)
    \/ \E u \in Users : connect_opened(u)
    \/ \E u \in Users : connect_failed(u)
    \/ \E h \in Handlers : connection_handler_loop(h)
    \/ \E h \in Handlers : connection_handler_opened(h)
    \/ \E h \in Handlers : connection_handler_error(h)
    \/ \E h \in Handlers : connection_handler_disconnected(h)
    \/ \E t \in Transports : transport_lost(t)

\* ---- orders over KucoinWSApiClient --------------------------------------

\* Order frames followed on one transport.
MaxWsOrders == 1

WsOrders(t) == Len(SelectSeq(sent[t], LAMBDA f : f.by = "ws_api"))

\* KucoinOrderManagementSystem.create_order_ws (spot): spot_add_order and
\* add_order send the frame on the transport the client holds; connect()
\* is not called. Without a transport _send raises AttributeError and
\* nothing is sent.
create_order_ws(u) ==
    /\ venue = "kucoin_api"
    /\ upc[u] = "idle"
    /\ connected
    /\ WsOrders(transport) < MaxWsOrders
    /\ sent' = Send(sent, transport, <<OrderFrame("order")>>)
    /\ UNCHANGED <<venue, transport, tstate, msg_handler_task, mtask, queue,
                   dispatched, hpc, hwait, subscriptions, upc, uop,
                   disconnect_called>>
    /\ UNCHANGED <<lost_subs, replay_due>>
    /\ UNCHANGED notWsVars

\* KucoinOrderManagementSystem.cancel_order_ws: connect() of
\* KucoinWSApiClient (which ends with the login frame), then the cancel
\* frame.
cancel_order_ws(u) ==
    /\ venue = "kucoin_api"
    /\ upc[u] = "idle"
    /\ connected => WsOrders(transport) < MaxWsOrders
    /\ CallConnect(u, [kind |-> "cancel_order_ws", topics |-> <<>>])
    /\ UNCHANGED <<venue, transport, tstate, msg_handler_task, mtask, queue,
                   dispatched, hpc, hwait>>
    /\ UNCHANGED <<lost_subs, replay_due>>
    /\ UNCHANGED notWsVars

WsApiNext ==
    \/ \E u \in Users : create_order_ws(u)
    \/ \E u \in Users : cancel_order_ws(u)
    \/ \E u \in Users : connect(u)
    \/ \E u \in Users : connect_opened(u)
    \/ \E u \in Users : connect_failed(u)
    \/ \E h \in Handlers : connection_handler_loop(h)
    \/ \E h \in Handlers : connection_handler_opened(h)
    \/ \E h \in Handlers : connection_handler_error(h)
    \/ \E h \in Handlers : connection_handler_disconnected(h)
    \/ \E t \in Transports : transport_lost(t)

KucoinApiInit == Init /\ venue = "kucoin_api"

\* The reconnect machinery alone: connect(), the reconnect loops, and the
\* loss of transports.  The subscribe calls act on it only through
\* connect(), and frames and their dispatch never write a variable the
\* reconnect loop reads.
ReconnectNext ==
    \/ \E u \in Users : connect(u)
    \/ \E u \in Users : connect_opened(u)
    \/ \E u \in Users : connect_failed(u)
    \/ \E h \in Handlers : connection_handler_loop(h)
    \/ \E h \in Handlers : connection_handler_opened(h)
    \/ \E h \in Handlers : connection_handler_error(h)
    \/ \E h \in Handlers : connection_handler_disconnected(h)
    \/ disconnect
    \/ \E t \in Transports : transport_lost(t)

\* The event loop resumes a reconnect loop whose await is over:
\* asyncio.sleep returns after reconnect_interval, wait_disconnected()
\* returns once the transport has closed, ws_connect returns or raises.
ReconnectFairness ==
    \A h \in Handlers :
        /\ WF_vars(connection_handler_loop(h))
        /\ WF_vars(connection_handler_disconnected(h))
        /\ WF_vars(connection_handler_opened(h) \/ connection_handler_error(h))

\* _connection_handler is WSManager code shared by every client class, and
\* the frames a class sends are never read by it: one class is followed.
ReconnectInit == Init /\ venue = "kucoin"

\* The state after construction of the components that have no WebSocket
\* venue of their own: the WS client is the KuCoin one and stays idle.
KucoinInit == ReconnectInit

WsPrivateSpec == KucoinInit /\ [][WsPrivateNext]_vars

WsApiSpec == KucoinApiInit /\ [][WsApiNext]_vars

\* C37: every subscription sent through the client, the private channels
\* included, is in the stored list from the moment it is sent, so that the
\* replay after a reconnect covers it.
C37_SentSubscriptionsAreStored ==
    \A t \in Transports : \A i \in 1..Len(sent[t]) :
        (sent[t][i].type = "subscribe" /\ sent[t][i].by = "private")
           => \E k \in 1..Len(subscriptions) :
                 \/ subscriptions[k] = sent[t][i].topic
                 \/ /\ HasBar(subscriptions[k])
                    /\ SplitKey(subscriptions[k]).topic = sent[t][i].topic

\* C39: on the WS-API connection an order or cancel frame is sent only on
\* a transport on which a login frame was sent before it.
C39_LoginBeforeOrder ==
    \A t \in Transports : \A i \in 1..Len(sent[t]) :
        sent[t][i].by = "ws_api"
           => \E j \in 1..(i - 1) : sent[t][j].type = "login"

ReconnectFairSpec == ReconnectInit /\ [][ReconnectNext]_vars /\ ReconnectFairness

\* Before position j of the wire log of transport t, a resubscribe frame
\* covered descriptor d.
ReplayedBefore(t, d, j) ==
    \E i \in 1..(j - 1) :
        sent[t][i].by = "resubscribe" /\ Covers(sent[t][i], d)

\* C4: reconnect replay -- on a transport that replaces a lost one, every
\* subscribe frame issued by the user is preceded by resubscribe frames
\* covering every descriptor that was stored before the disconnect.
C4_ReplayPrecedesUserSubscribe ==
    \A t \in Transports : \A j \in 1..Len(sent[t]) :
        sent[t][j].by = "subscribe" =>
            \A d \in replay_due[t] : ReplayedBefore(t, d, j)

\* Copies of descriptor d in the stored list, and subscribe frames for d
\* that _subscribe put on the wire (on any transport).
Copies(d) ==
    Cardinality({i \in 1..Len(subscriptions) :
        subscriptions[i] = (IF venue = "kucoin" THEN KeyOf(d) ELSE d)})
UserFrames(d) ==
    Cardinality(UNION {
        {<<t, i>> : i \in {j \in 1..Len(sent[t]) :
            sent[t][j].by = "subscribe" /\ Covers(sent[t][j], d)}} :
        t \in Transports})

\* C5: subscription idempotence -- whatever lists are passed to subscribe
\* calls made one after another, the stored list holds at most one copy of a
\* descriptor and at most one subscribe frame was sent for it.
C5_SubscribeIdempotent ==
    \A d \in Descriptors : Copies(d) <= 1 /\ UserFrames(d) <= 1

\* C6: once the owner has called disconnect(), no reconnect loop starts a
\* connection attempt and no resubscribe frame is sent.
C6_DisconnectIsTerminal ==
    [][disconnect_called =>
          /\ \A h \in Handlers :
                ~(hpc[h] # "connecting" /\ hpc'[h] = "connecting")
          /\ \A t \in Transports :
                \A i \in 1..Len(sent'[t]) :
                    sent'[t][i].by = "resubscribe" => i <= Len(sent[t])]_vars

\* A reconnect loop that is attempting a connection or attached to a live
\* transport.
Reconnecting(h) ==
    \/ hpc[h] = "connecting"
    \/ (hpc[h] = "waiting" /\ tstate[hwait[h]] = "open")

\* C7: a reconnect loop never ends -- from any state in which it exists
\* (after a transport loss, in back-off, after a failed open) it eventually
\* attempts a connection again or is attached to a live transport.
C7_ReconnectKeepsTrying ==
    \A h \in Handlers : (hpc[h] # "none") ~> Reconnecting(h)

\* A reconnect attempt in progress after a transport was lost, the owner not
\* having called disconnect().
C7_Witness ==
    /\ ~disconnect_called
    /\ \E t \in Transports : tstate[t] = "closed"
    /\ \E h \in Handlers : hpc[h] = "connecting"

\* C8: on a transport that replaces a lost one, no frame is handed to the
\* user handler before the stored subscriptions have been replayed.
C8_ReplayBeforeDispatch ==
    \A t \in Transports :
        dispatched[t] =>
            \A d \in replay_due[t] : ReplayedBefore(t, d, Len(sent[t]) + 1)

\* C9: connect() is idempotent -- at most one live transport, one running
\* message-dispatch task and one reconnect loop per client, and at most one
\* login frame on a transport.
C9_ConnectIdempotent ==
    /\ Cardinality({t \in Transports : tstate[t] = "open"}) <= 1
    /\ Cardinality({t \in Transports : mtask[t] = "running"}) <= 1
    /\ Cardinality({h \in Handlers : hpc[h] # "none"}) <= 1
    /\ \A t \in Transports : Logins(t) <= 1

\* C10: an exception of the user handler does not end the dispatch of the
\* frames of its transport.
C10_HandlerExceptionKeepsDispatch ==
    \A t \in Transports : mtask[t] # "crashed"

(***************************************************************************)
(* Order management: KucoinOrderManagementSystem (exchange/kucoin/oms.py)   *)
(* and HyperLiquidPrivateConnector (exchange/hyperliquid/connector.py).     *)
(* Each REST request is one suspension point: the first action of a call    *)
(* runs up to the request, the second one from its answer to the return.    *)
(* order_status_update is inherited from nexustrader/base/oms.py, which is  *)
(* not part of the sources at hand; it follows the OMS rules of the design  *)
(* (illegal transitions are dropped, terminal is sticky).                   *)
(***************************************************************************)

Terminal == {"FILLED", "CANCELED", "EXPIRED", "FAILED"}
Transient == {"CANCELING", "CANCEL_FAILED", "REPLACED", "REPLACE_FAILED"}
VenueStatuses == {"ACCEPTED", "PARTIALLY_FILLED", "FILLED", "CANCELED",
                  "EXPIRED"}

\* Longest stream of updates of one oid that venue events extend.
MaxEvents == 3

\* The order status machine of the OMS: the statuses an order in status
\* `from` may move to. The transient statuses modify a live order.
LegalTransition(from, to) ==
    CASE from = None -> to \in {"PENDING", "FAILED"}
      [] from \in Terminal -> FALSE
      [] to \in Transient -> TRUE
      [] from = "PENDING" -> to \in {"ACCEPTED", "FAILED"}
      [] from = "ACCEPTED" ->
            to \in {"PARTIALLY_FILLED", "FILLED", "CANCELED", "EXPIRED"}
      [] from = "PARTIALLY_FILLED" ->
            to \in {"PARTIALLY_FILLED", "FILLED", "CANCELED", "EXPIRED"}
      [] OTHER -> FALSE

\* order_status_update without the transition check: every update is
\* published.
order_status_update_unchecked(oid, status) ==
    /\ emitted' = [emitted EXCEPT ![oid] = Append(@, status)]
    /\ order_status' = [order_status EXCEPT ![oid] =
                           IF status \in Transient THEN @ ELSE status]
    /\ UNCHANGED dropped

\* OrderManagementSystem.order_status_update(order): a legal update is
\* written through and published, an illegal one is dropped.
order_status_update(oid, status) ==
    IF LegalTransition(order_status[oid], status)
    THEN /\ emitted' = [emitted EXCEPT ![oid] = Append(@, status)]
         /\ order_status' = [order_status EXCEPT ![oid] =
                                IF status \in Transient THEN @ ELSE status]
         /\ UNCHANGED dropped
    ELSE /\ dropped' = <<oid, order_status[oid], status>>
         /\ UNCHANGED <<order_status, emitted>>

\* The call raises: the exception leaves the coroutine.
Raise(op, oid, exc) ==
    /\ raised' = [op |-> op, oid |-> oid, exc |-> exc]
    /\ UNCHANGED <<order_status, emitted, calls, returned, dropped>>

\* The call suspends on its REST request.
Await(op, oid, at) ==
    /\ calls' = [calls EXCEPT ![ncalls + 1] =
                    [op |-> op, oid |-> oid, at |-> at]]
    /\ UNCHANGED <<order_status, emitted, raised, returned, dropped>>

\* The call returns an Order with the status; `requested` tells whether a
\* request went to the venue and `ok` whether the venue acknowledged it.
Return(op, oid, status, requested, ok) ==
    returned' = [op |-> op, oid |-> oid, status |-> status,
                 requested |-> requested, ok |-> ok]

\* KucoinOrderManagementSystem.create_order up to the REST request.
create_order(oid, at, known) ==
    /\ ncalls < MaxCalls
    /\ ncalls' = ncalls + 1
    /\ IF ~known
       THEN Raise("create_order", oid, "ValueError")
       ELSE IF at \in {"SPOT", "FUTURES"}
            THEN Await("create_order", oid, at)
            ELSE \* no branch binds `order`; line 332 reads it
                 Raise("create_order", oid, "UnboundLocalError")
    /\ UNCHANGED notOmsVars

\* create_order from the answer of the REST request.
create_order_done(c, ok) ==
    /\ calls[c].op = "create_order"
    /\ LET status == IF ok THEN "PENDING" ELSE "FAILED"
       IN /\ order_status_update(calls[c].oid, status)
          /\ Return("create_order", calls[c].oid, status, TRUE, ok)
    /\ calls' = [calls EXCEPT ![c] = NoCall]
    /\ UNCHANGED <<ncalls, raised>>
    /\ UNCHANGED notOmsVars

\* KucoinOrderManagementSystem.cancel_order up to the REST request.
cancel_order(oid, at, known) ==
    /\ ncalls < MaxCalls
    /\ ncalls' = ncalls + 1
    /\ IF ~known
       THEN /\ order_status_update(oid, "CANCEL_FAILED")
            /\ Return("cancel_order", oid, "CANCEL_FAILED", FALSE, FALSE)
            /\ UNCHANGED <<calls, raised>>
       ELSE IF at \in {"SPOT", "FUTURES"}
            THEN Await("cancel_order", oid, at)
            ELSE \* neither branch sends a request
                 /\ order_status_update(oid, "CANCELING")
                 /\ Return("cancel_order", oid, "CANCELING", FALSE, FALSE)
                 /\ UNCHANGED <<calls, raised>>
    /\ UNCHANGED notOmsVars

\* cancel_order from the answer of the REST request.
cancel_order_done(c, ok) ==
    /\ calls[c].op = "cancel_order"
    /\ LET status == IF ok THEN "CANCELING" ELSE "CANCEL_FAILED"
       IN /\ order_status_update(calls[c].oid, status)
          /\ Return("cancel_order", calls[c].oid, status, TRUE, ok)
    /\ calls' = [calls EXCEPT ![c] = NoCall]
    /\ UNCHANGED <<ncalls, raised>>
    /\ UNCHANGED notOmsVars

\* KucoinOrderManagementSystem.modify_order up to the REST request.
modify_order(oid, at, known) ==
    /\ ncalls < MaxCalls
    /\ ncalls' = ncalls + 1
    /\ IF known /\ at = "SPOT"
       THEN Await("modify_order", oid, at)
       ELSE \* ValueError or NotImplementedError, caught at line 579
            /\ order_status_update(oid, "REPLACE_FAILED")
            /\ Return("modify_order", oid, "REPLACE_FAILED", FALSE, FALSE)
            /\ UNCHANGED <<calls, raised>>
    /\ UNCHANGED notOmsVars

\* modify_order from the answer of the REST request.
modify_order_done(c, ok) ==
    /\ calls[c].op = "modify_order"
    /\ LET status == IF ok THEN "REPLACED" ELSE "REPLACE_FAILED"
       IN /\ order_status_update(calls[c].oid, status)
          /\ Return("modify_order", calls[c].oid, status, TRUE, ok)
    /\ calls' = [calls EXCEPT ![c] = NoCall]
    /\ UNCHANGED <<ncalls, raised>>
    /\ UNCHANGED notOmsVars

\* An order event of the venue, handed to the OMS by the private connector.
on_order_event(oid, status) ==
    /\ Len(emitted[oid]) < MaxEvents
    /\ order_status_update(oid, status)
    /\ UNCHANGED <<calls, ncalls, raised, returned>>
    /\ UNCHANGED notOmsVars

\* HyperLiquidPrivateConnector.create_order up to the REST request.
hl_create_order(known, is_market, tif_mapped) ==
    /\ ncalls < MaxCalls
    /\ ncalls' = ncalls + 1
    /\ IF ~known \/ is_market
       THEN Raise("hl_create_order", None, "ValueError")
       ELSE IF ~tif_mapped
            THEN Raise("hl_create_order", None, "KeyError")
            ELSE Await("hl_create_order", None, None)
    /\ UNCHANGED notOmsVars

\* HyperLiquidPrivateConnector.create_order from the answer of place_orders:
\* accepted, rejected in the answer (status.error), or an exception.
hl_create_order_done(c, outcome) ==
    /\ calls[c].op = "hl_create_order"
    /\ Return("hl_create_order", None,
              IF outcome = "accepted" THEN "PENDING" ELSE "FAILED",
              TRUE, outcome = "accepted")
    /\ calls' = [calls EXCEPT ![c] = NoCall]
    /\ UNCHANGED <<order_status, emitted, ncalls, raised, dropped>>
    /\ UNCHANGED notOmsVars

OmsNext ==
    \/ \E o \in Oids, at \in KucoinAccountTypes, known \in BOOLEAN :
          \/ create_order(o, at, known)
          \/ cancel_order(o, at, known)
          \/ modify_order(o, at, known)
    \/ \E c \in Calls, ok \in BOOLEAN :
          \/ create_order_done(c, ok)
          \/ cancel_order_done(c, ok)
          \/ modify_order_done(c, ok)
    \/ \E o \in Oids, st \in VenueStatuses : on_order_event(o, st)
    \/ \E known \in BOOLEAN, is_market \in BOOLEAN, tif_mapped \in BOOLEAN :
          hl_create_order(known, is_market, tif_mapped)
    \/ \E c \in Calls, outcome \in {"accepted", "rejected", "exception"} :
          hl_create_order_done(c, outcome)

OmsSpec == KucoinInit /\ [][OmsNext]_vars

C12_CreateFailureBecomesFailed ==
    /\ raised.op \notin {"create_order", "hl_create_order"}
    /\ (returned.op \in {"create_order", "hl_create_order"} /\ ~returned.ok)
          => returned.status = "FAILED"

\* C32: cancel_order answers CANCELING only when a cancel request went to
\* the venue and the venue acknowledged it, whatever the account type; in
\* every other case it answers CANCEL_FAILED.
C32_CancelingOnlyAfterAck ==
    returned.op = "cancel_order"
       => /\ returned.status \in {"CANCELING", "CANCEL_FAILED"}
          /\ returned.status = "CANCELING"
                <=> (returned.requested /\ returned.ok)

(***************************************************************************)
(* Execution management: KucoinExecutionManagementSystem                    *)
(* (exchange/kucoin/ems.py). The engine sets the private connectors and     *)
(* the base class builds the queues, sets the account types and runs one    *)
(* consumer per queue; these are in nexustrader/base/ems.py, which is not   *)
(* part of the sources at hand.                                             *)
(***************************************************************************)

Subtypes == {"spot", "linear", "inverse"}

\* Line 77: a batch is put on the queue in chunks of 20 orders.
ChunkSize == 20

\* Lengths of the batches handed to _submit_order.
BatchLens == {0, ChunkSize, ChunkSize + 1}

\* The engine hands the private connectors to the EMS.
set_private_connectors(conns) ==
    /\ ems_pc = "new"
    /\ ems_pc' = "wired"
    /\ private_connectors' = conns
    /\ UNCHANGED <<kucoin_spot_account_type, kucoin_futures_account_type,
                   order_submit_queues, nsubmits, next_order, submitted,
                   delivered, last_submit>>
    /\ UNCHANGED notEmsVars

\* _build_order_submit_queues: one empty queue per private connector.
build_order_submit_queues ==
    /\ ems_pc = "wired"
    /\ ems_pc' = "queues"
    /\ order_submit_queues' = [at \in KucoinAccountTypes |-> <<>>]
    /\ UNCHANGED <<private_connectors, kucoin_spot_account_type,
                   kucoin_futures_account_type, nsubmits, next_order,
                   submitted, delivered, last_submit>>
    /\ UNCHANGED notEmsVars

\* The keys of _order_submit_queues.
QueueKeys == IF ems_pc \in {"queues", "ready"} THEN private_connectors ELSE {}

\* _set_account_type: both branches assign _kucoin_futures_account_type.
set_account_type ==
    /\ ems_pc = "queues"
    /\ ems_pc' = "ready"
    /\ kucoin_futures_account_type' =
          IF "FUTURES" \in private_connectors THEN "FUTURES"
          ELSE IF "SPOT" \in private_connectors THEN "SPOT"
          ELSE kucoin_futures_account_type
    /\ UNCHANGED <<private_connectors, kucoin_spot_account_type,
                   order_submit_queues, nsubmits, next_order, submitted,
                   delivered, last_submit>>
    /\ UNCHANGED notEmsVars

\* _instrument_id_to_account_type.
instrument_id_to_account_type(subtype) ==
    IF subtype = "spot"
    THEN IF kucoin_spot_account_type # None
         THEN kucoin_spot_account_type
         ELSE "SPOT"
    ELSE IF subtype \in {"linear", "inverse"}
         THEN IF kucoin_futures_account_type # None
              THEN kucoin_futures_account_type
              ELSE "FUTURES"
         ELSE None

\* Python's order[i : j] on a list, i and j counted from 0.
Slice(order, i, j) ==
    SubSeq(order, i + 1, IF j < Len(order) THEN j ELSE Len(order))

\* A chunking that takes one order less than the step in every chunk.
ChunksShort(order) ==
    [k \in 1..((Len(order) + ChunkSize - 1) \div ChunkSize) |->
        Slice(order, (k - 1) * ChunkSize, (k - 1) * ChunkSize + ChunkSize - 1)]

\* Lines 77-79: [order[i : i + 20] for i in range(0, len(order), 20)].
Chunks(order) ==
    [k \in 1..((Len(order) + ChunkSize - 1) \div ChunkSize) |->
        Slice(order, (k - 1) * ChunkSize, (k - 1) * ChunkSize + ChunkSize)]

\* The orders of the items of a queue, in queue order.
RECURSIVE Flatten(_)
Flatten(q) == IF q = <<>> THEN <<>> ELSE Head(q).orders \o Flatten(Tail(q))

\* The account type _submit_order uses.
Target(subtype, account_type) ==
    IF account_type = None
    THEN instrument_id_to_account_type(subtype)
    ELSE account_type

\* _submit_order raises: nothing is put on a queue.
SubmitRaise(subtype, account_type, exc) ==
    /\ last_submit' = [subtype |-> subtype, account_type |-> account_type,
                       target |-> None, exc |-> exc]
    /\ UNCHANGED <<order_submit_queues, next_order, submitted>>

\* put_nowait of the items on the queue of the account type.
Put(subtype, account_type, items) ==
    LET target == Target(subtype, account_type)
    IN /\ order_submit_queues' =
             [order_submit_queues EXCEPT ![target] = @ \o items]
       /\ last_submit' = [subtype |-> subtype, account_type |-> account_type,
                          target |-> target, exc |-> None]

\* _submit_order with one order.
submit_order(subtype, account_type) ==
    /\ ems_pc = "ready"
    /\ nsubmits < MaxSubmits
    /\ nsubmits' = nsubmits + 1
    /\ IF Target(subtype, account_type) \notin QueueKeys
       THEN SubmitRaise(subtype, account_type, "KeyError")
       ELSE /\ Put(subtype, account_type,
                   <<[orders |-> <<next_order>>, batch |-> FALSE]>>)
            /\ submitted' =
                  [submitted EXCEPT ![Target(subtype, account_type)] =
                      Append(@, next_order)]
            /\ next_order' = next_order + 1
    /\ UNCHANGED <<ems_pc, private_connectors, kucoin_spot_account_type,
                   kucoin_futures_account_type, delivered>>
    /\ UNCHANGED notEmsVars

\* _submit_order with a list of n orders; subtype is that of order[0].
submit_batch(n, subtype, account_type) ==
    /\ ems_pc = "ready"
    /\ nsubmits < MaxSubmits
    /\ nsubmits' = nsubmits + 1
    /\ LET order == [i \in 1..n |-> next_order + i - 1]
       IN IF account_type = None /\ n = 0
          THEN SubmitRaise(subtype, account_type, "IndexError")
          ELSE IF n > 0 /\ Target(subtype, account_type) \notin QueueKeys
          THEN SubmitRaise(subtype, account_type, "KeyError")
          ELSE IF n = 0
          THEN /\ last_submit' =
                     [subtype |-> subtype, account_type |-> account_type,
                      target |-> account_type, exc |-> None]
               /\ UNCHANGED <<order_submit_queues, next_order, submitted>>
          ELSE /\ Put(subtype, account_type,
                      [k \in 1..Len(Chunks(order)) |->
                          [orders |-> Chunks(order)[k], batch |-> TRUE]])
               /\ submitted' =
                     [submitted EXCEPT ![Target(subtype, account_type)] =
                         @ \o order]
               /\ next_order' = next_order + n
    /\ UNCHANGED <<ems_pc, private_connectors, kucoin_spot_account_type,
                   kucoin_futures_account_type, delivered>>
    /\ UNCHANGED notEmsVars

\* The consumer of a queue takes the next item and calls the connector.
consume(at) ==
    /\ at \in QueueKeys
    /\ order_submit_queues[at] # <<>>
    /\ order_submit_queues' =
          [order_submit_queues EXCEPT ![at] = Tail(@)]
    /\ delivered' = [delivered EXCEPT ![at] =
                        @ \o Head(order_submit_queues[at]).orders]
    /\ UNCHANGED <<ems_pc, private_connectors, kucoin_spot_account_type,
                   kucoin_futures_account_type, nsubmits, next_order,
                   submitted, last_submit>>
    /\ UNCHANGED notEmsVars

EmsNext ==
    \/ \E conns \in SUBSET KucoinAccountTypes : set_private_connectors(conns)
    \/ build_order_submit_queues
    \/ set_account_type
    \/ \E st \in Subtypes, at \in KucoinAccountTypes \cup {None} :
          submit_order(st, at)
    \/ \E n \in BatchLens, st \in Subtypes,
          at \in KucoinAccountTypes \cup {None} : submit_batch(n, st, at)
    \/ \E at \in KucoinAccountTypes : consume(at)

EmsSpec == KucoinInit /\ [][EmsNext]_vars

\* C13: per-account FIFO: the orders taken off an account's queue followed
\* by the orders still on it are the orders submitted for that account, each
\* exactly once and in the order of submission, chunked batches included.
C13_PerAccountFifo ==
    \A at \in KucoinAccountTypes :
        delivered[at] \o Flatten(order_submit_queues[at]) = submitted[at]

\* A batch longer than one chunk was split, and the consumer has taken its
\* first chunk while a later chunk is still queued.
C13_Witness ==
    \E at \in KucoinAccountTypes :
        /\ Len(delivered[at]) >= ChunkSize
        /\ order_submit_queues[at] # <<>>
        /\ Head(order_submit_queues[at]).batch
        /\ Len(submitted[at]) > ChunkSize

\* C14: an explicit account type wins; otherwise a spot instrument goes to
\* the spot account and a linear or inverse instrument to the futures
\* account, whatever private connectors are connected.
C14_AccountTypeSelection ==
    last_submit.target # None =>
        IF last_submit.account_type # None
        THEN last_submit.target = last_submit.account_type
        ELSE IF last_submit.subtype = "spot"
             THEN last_submit.target = "SPOT"
             ELSE last_submit.target = "FUTURES"

(***************************************************************************)
(* TWAP slicer: ExecutionManagementSystem._calculate_twap_orders. The       *)
(* method is in nexustrader/base/ems.py, which is not part of the sources   *)
(* at hand; test_cal_twap_orders (test/base/test_execution_ems.py) pins     *)
(* eight of its results. The slicer below follows the TWAP algorithm of the *)
(* design, and the test where it pins what the design leaves open: a        *)
(* sub-minimum total returns the wait 0. Rows 5 and 6 of the test (wait = 5)*)
(* expect other slice sizes than the design's algorithm gives; the test     *)
(* rows are part of the model as they stand. Amounts are in lots of 0.001;  *)
(* a wait is a fraction num / den of seconds.                               *)
(***************************************************************************)

\* Largest total amount handed to the slicer, in lots.
MaxTotal == 10
\* Largest min_order_amount, in lots.
MaxMinAmount == 3

Durations == {10}
Waits == {1, 5, 12}

Repeat(x, n) == [i \in 1..n |-> x]

RECURSIVE Sum(_)
Sum(q) == IF q = <<>> THEN 0 ELSE Head(q) + Sum(Tail(q))

\* a = b for two fractions.
FracEq(a, b) == a.num * b.den = b.num * a.den

\* max(D / k, W) as a fraction.
MaxWait(D, k, W) ==
    IF D >= W * k THEN [num |-> D, den |-> k] ELSE [num |-> W, den |-> 1]

\* The slices of the design's algorithm: n = floor(T / U) slices of U and
\* the remainder r, appended when reduce_only, merged into the last slice
\* otherwise.
TwapSlices(T, U, reduce_only) ==
    LET n == T \div U
        r == T - n * U
    IN IF r > 0 /\ reduce_only THEN Append(Repeat(U, n), r)
       ELSE IF r > 0 /\ n >= 1 THEN [Repeat(U, n) EXCEPT ![n] = U + r]
       ELSE Repeat(U, n)

\* A slicer that leaves the remainder out when it is not reduce-only.
calculate_twap_orders_drops_remainder(T, D, W, U, reduce_only) ==
    LET amount_list == IF reduce_only THEN TwapSlices(T, U, TRUE)
                       ELSE Repeat(U, T \div U)
    IN [amount_list |-> amount_list,
        wait |-> IF T < U THEN [num |-> 0, den |-> 1]
                 ELSE MaxWait(D, Len(amount_list), W)]

\* A slicer that appends the remainder as a slice of its own in every case.
calculate_twap_orders_appends_remainder(T, D, W, U, reduce_only) ==
    LET amount_list == IF T < U THEN TwapSlices(T, U, reduce_only)
                       ELSE TwapSlices(T, U, TRUE)
    IN [amount_list |-> amount_list,
        wait |-> IF T < U THEN [num |-> 0, den |-> 1]
                 ELSE MaxWait(D, Len(amount_list), W)]

\* A slicer that trades a sub-minimum total also when it is not reduce-only.
calculate_twap_orders_trades_submin(T, D, W, U, reduce_only) ==
    LET amount_list == TwapSlices(T, U, reduce_only \/ T < U)
    IN [amount_list |-> amount_list,
        wait |-> IF T < U THEN [num |-> 0, den |-> 1]
                 ELSE MaxWait(D, Len(amount_list), W)]

\* A slicer that spreads the slices over the duration and ignores the
\* minimum wait.
calculate_twap_orders_ignores_wait(T, D, W, U, reduce_only) ==
    LET amount_list == TwapSlices(T, U, reduce_only)
    IN [amount_list |-> amount_list,
        wait |-> IF T < U THEN [num |-> 0, den |-> 1]
                 ELSE [num |-> D, den |-> Len(amount_list)]]

\* _calculate_twap_orders(symbol, total_amount, duration, wait,
\* min_order_amount, reduce_only) -> (amount_list, wait).
calculate_twap_orders(T, D, W, U, reduce_only) ==
    LET amount_list == TwapSlices(T, U, reduce_only)
    IN [amount_list |-> amount_list,
        wait |-> IF T < U THEN [num |-> 0, den |-> 1]
                 ELSE MaxWait(D, Len(amount_list), W)]

\* The parameters and expected results of test_cal_twap_orders, with
\* min_order_amount = 0.002.
TwapCases ==
    << [T |-> 1, D |-> 10, W |-> 1, ro |-> FALSE, amounts |-> <<>>,
        wait |-> [num |-> 0, den |-> 1]],
       [T |-> 1, D |-> 10, W |-> 1, ro |-> TRUE, amounts |-> <<1>>,
        wait |-> [num |-> 0, den |-> 1]],
       [T |-> 5, D |-> 10, W |-> 1, ro |-> FALSE, amounts |-> <<2, 3>>,
        wait |-> [num |-> 10, den |-> 2]],
       [T |-> 5, D |-> 10, W |-> 1, ro |-> TRUE, amounts |-> <<2, 2, 1>>,
        wait |-> [num |-> 10, den |-> 3]],
       [T |-> 5, D |-> 10, W |-> 5, ro |-> FALSE, amounts |-> <<3, 2>>,
        wait |-> [num |-> 10, den |-> 2]],
       [T |-> 5, D |-> 10, W |-> 5, ro |-> TRUE, amounts |-> <<3, 2>>,
        wait |-> [num |-> 10, den |-> 2]],
       [T |-> 9, D |-> 10, W |-> 1, ro |-> FALSE, amounts |-> <<2, 2, 2, 3>>,
        wait |-> [num |-> 10, den |-> 4]],
       [T |-> 9, D |-> 10, W |-> 1, ro |-> TRUE, amounts |-> <<2, 2, 2, 2, 1>>,
        wait |-> [num |-> 10, den |-> 5]] >>

TwapCall(src, T, D, W, U, reduce_only) ==
    [src |-> src, total_amount |-> T, duration |-> D, wait |-> W,
     min_order_amount |-> U, reduce_only |-> reduce_only]

\* A call of the slicer.
cal_twap_orders(T, D, W, U, reduce_only) ==
    /\ twap_call' = TwapCall("slicer", T, D, W, U, reduce_only)
    /\ twap_result' = calculate_twap_orders(T, D, W, U, reduce_only)
    /\ UNCHANGED notTwapVars

\* A call of the slicer with the parameters of a row of the test; it
\* returns what the test asserts.
test_cal_twap_orders(row) ==
    /\ twap_call' = TwapCall("test", TwapCases[row].T, TwapCases[row].D,
                             TwapCases[row].W, 2, TwapCases[row].ro)
    /\ twap_result' = [amount_list |-> TwapCases[row].amounts,
                       wait |-> TwapCases[row].wait]
    /\ UNCHANGED notTwapVars

TwapNext ==
    \/ \E T \in 0..MaxTotal, D \in Durations, W \in Waits,
          U \in 1..MaxMinAmount, reduce_only \in BOOLEAN :
          cal_twap_orders(T, D, W, U, reduce_only)
    \/ \E row \in 1..Len(TwapCases) : test_cal_twap_orders(row)

TwapSpec == KucoinInit /\ [][TwapNext]_vars

BaseUrls == {"api.kucoin.com", "api-futures.kucoin.com"}

Methods == {"GET", "POST"}

\* KucoinApiClient._fetch: scope = "SPOT" if "api.kucoin.com" in base_url
\* else "FUTURES".
FetchScope(base_url) ==
    IF base_url = "api.kucoin.com" THEN "SPOT" ELSE "FUTURES"

\* KucoinRateLimiter._acquire_rate_limit(scope, method), a synchronous call:
\* the buckets, the clock and whether a token was taken when it returns.
\* The key it looks up is the tuple (scope, method); a bucket that is absent
\* means no limit.  With a bucket: tokens are reset once more than Window
\* seconds passed since the last refill; a token is taken if there is one;
\* otherwise the thread sleeps last_refill + 30 seconds and the loop runs
\* again, which then refills and takes.
acquire_rate_limit(scope, method) ==
    LET key == <<scope, method>> IN
    IF key \notin DOMAIN rate_buckets
    THEN [buckets |-> rate_buckets, now |-> rl_now, took |-> FALSE]
    ELSE
        LET bucket == rate_buckets[key]
            refilled ==
                IF rl_now - bucket.last_refill > Window
                THEN [bucket EXCEPT !.tokens = bucket.capacity,
                                    !.last_refill = rl_now]
                ELSE bucket
            woke == rl_now + refilled.last_refill + Window
        IN  IF refilled.tokens >= 1
            THEN [buckets |-> [rate_buckets EXCEPT
                                 ![key] = [refilled EXCEPT !.tokens = @ - 1]],
                  now |-> rl_now, took |-> TRUE]
            ELSE [buckets |-> [rate_buckets EXCEPT
                                 ![key] = [refilled EXCEPT
                                             !.tokens = bucket.capacity - 1,
                                             !.last_refill = woke]],
                  now |-> woke, took |-> TRUE]

\* The HTTP request of request r goes on the wire.
SendRequest(r, req, in_retry) ==
    Append(network_calls,
           [req |-> r, client |-> req.client, bucket |-> req.bucket,
            at |-> rl_now, limiter_returned |-> req.limiter_returned,
            in_retry |-> in_retry])

\* A Python str and a Python int holding the number v: a str never equals
\* an int.
PyStr(v) == [type |-> "str", value |-> v]
PyInt(v) == [type |-> "int", value |-> v]

\* HTTP statuses a venue answers with, and what the body of an error
\* response is: not JSON, JSON without a "code" member, or JSON whose "code"
\* member is -1000.
Statuses == {200, 400, 429, 503}
Bodies == {"notjson", "nocode", "code"}

\* No error.
NoExc == [type |-> "None", code |-> PyInt(0)]

\* KucoinApiClient._decode_response for a response with status >= 400: the
\* body is decoded as JSON (msgspec.DecodeError when it is none), its "code"
\* member or else the status becomes the code, and KucoinError keeps
\* str(code).
decode_response(status, body) ==
    IF body = "notjson"
    THEN [type |-> "DecodeError", code |-> PyInt(0)]
    ELSE [type |-> "KucoinError",
          code |-> PyStr(IF body = "nocode" THEN status ELSE -1000)]

\* error.retry_check: the code starts with 429, 500 or 503.
retry_check(error) ==
    error.code.value \in {429, 500, 503}

\* The predicate KucoinApiClient.__init__ registers with its RetryManager:
\* exc_types = (KucoinError, KucoinError) and
\* retry_check = lambda e: e.code in [-1000, -1001].
registered_retry_check(error) ==
    /\ error.type = "KucoinError"
    /\ error.code \in {PyInt(-1000), PyInt(-1001)}

\* KucoinApiClient._fetch up to its first suspension: the limiter call, then
\* retry_manager.run, which invokes _fetch_async, which sends the request.
kucoin_fetch(base_url, method) ==
    /\ Len(requests) < MaxRequests
    /\ LET scope == FetchScope(base_url)
           got == acquire_rate_limit(scope, method)
           req == [client |-> "kucoin", bucket |-> scope,
                   key |-> <<scope, method>>, took |-> got.took,
                   pc |-> "network", limiter_returned |-> TRUE,
                   attempts |-> 1, status |-> 0, exc |-> NoExc]
       IN  /\ rate_buckets' = got.buckets
           /\ rl_now' = got.now
           /\ tokens_consumed' =
                IF got.took
                THEN [tokens_consumed EXCEPT ![scope] = @ + 1]
                ELSE tokens_consumed
           /\ requests' = Append(requests, req)
           /\ network_calls' = [SendRequest(Len(requests) + 1, req, TRUE)
                                  EXCEPT ![Len(network_calls) + 1].at = got.now]
    /\ UNCHANGED notRlVars

\* The response arrives and _fetch_async returns or raises inside
\* retry_manager.run: a result ends the request, an error the registered
\* predicate accepts starts the back-off sleep while retries are left, any
\* other error is raised to the caller.
fetch_async_done(r, status, body) ==
    /\ r \in 1..Len(requests)
    /\ requests[r].client = "kucoin"
    /\ requests[r].pc = "network"
    /\ LET error == IF status >= 400 THEN decode_response(status, body)
                    ELSE NoExc
       IN  requests' =
             [requests EXCEPT
                ![r].status = status,
                ![r].exc = error,
                ![r].pc =
                   CASE status < 400 -> "done"
                     [] status >= 400 /\ registered_retry_check(error)
                          /\ requests[r].attempts <= MaxRetries -> "backoff"
                     [] OTHER -> "raised"]
    /\ UNCHANGED <<rl_now, rate_buckets, network_calls, tokens_consumed>>
    /\ UNCHANGED notRlVars

\* The back-off sleep of retry_manager.run ends and it invokes _fetch_async
\* again.  (No error of KucoinApiClient passes the registered predicate, so
\* the client never gets here.)
retry_manager_retry(r) ==
    /\ r \in 1..Len(requests)
    /\ requests[r].pc = "backoff"
    /\ requests' = [requests EXCEPT ![r].pc = "network", ![r].attempts = @ + 1]
    /\ network_calls' = SendRequest(r, requests[r], TRUE)
    /\ UNCHANGED <<rl_now, rate_buckets, tokens_consumed>>
    /\ UNCHANGED notRlVars

\* The keys HyperLiquidRateLimiter and HyperLiquidRateLimiterSync hold a
\* Throttled for.
HyperLiquidRateLimiter == {StrKey("/exchange")}
HyperLiquidRateLimiterSync == {StrKey("/info")}

\* HyperLiquidApiClient.place_order and cancel_order up to the first
\* suspension: self._limiter("/exchange").limit(...) is called and its result
\* dropped, then self._fetch sends the request.
HyperLiquidRequest(op) ==
    [client |-> op, bucket |-> "/exchange", key |-> StrKey("/exchange"),
     took |-> TRUE, pc |-> "network", limiter_returned |-> TRUE,
     attempts |-> 1, status |-> 0, exc |-> NoExc]

hyperliquid_place_order ==
    /\ Len(requests) < MaxRequests
    /\ requests' = Append(requests, HyperLiquidRequest("hyperliquid_place_order"))
    /\ network_calls' =
         SendRequest(Len(requests) + 1,
                     HyperLiquidRequest("hyperliquid_place_order"), FALSE)
    /\ UNCHANGED <<rl_now, rate_buckets, tokens_consumed>>
    /\ UNCHANGED notRlVars

hyperliquid_cancel_order ==
    /\ Len(requests) < MaxRequests
    /\ requests' = Append(requests, HyperLiquidRequest("hyperliquid_cancel_order"))
    /\ network_calls' =
         SendRequest(Len(requests) + 1,
                     HyperLiquidRequest("hyperliquid_cancel_order"), FALSE)
    /\ UNCHANGED <<rl_now, rate_buckets, tokens_consumed>>
    /\ UNCHANGED notRlVars

\* HyperLiquidApiClient._fetch returns the body or raises.
hyperliquid_fetch_done(r, ok) ==
    /\ r \in 1..Len(requests)
    /\ requests[r].client # "kucoin"
    /\ requests[r].pc = "network"
    /\ requests' = [requests EXCEPT ![r].pc = IF ok THEN "done" ELSE "raised"]
    /\ UNCHANGED <<rl_now, rate_buckets, network_calls, tokens_consumed>>
    /\ UNCHANGED notRlVars

\* HyperLiquidApiClient.get_meta, a synchronous call:
\* self._limiter_sync("public") is self._throttled["public"], a KeyError when
\* the dictionary has no such key; otherwise limit() and then _fetch_sync.
hyperliquid_get_meta(ok) ==
    /\ Len(requests) < MaxRequests
    /\ LET known == StrKey("public") \in HyperLiquidRateLimiterSync
           req == [client |-> "hyperliquid_get_meta", bucket |-> "public",
                   key |-> StrKey("public"), took |-> known,
                   pc |-> IF known /\ ok THEN "done" ELSE "raised",
                   limiter_returned |-> known,
                   attempts |-> IF known THEN 1 ELSE 0, status |-> 0,
                   exc |-> IF known THEN NoExc
                           ELSE [type |-> "KeyError", code |-> PyInt(0)]]
       IN  /\ requests' = Append(requests, req)
           /\ network_calls' =
                IF known THEN SendRequest(Len(requests) + 1, req, FALSE)
                ELSE network_calls
    /\ UNCHANGED <<rl_now, rate_buckets, tokens_consumed>>
    /\ UNCHANGED notRlVars

\* HyperLiquidApiClient.get_spot_meta, the same with
\* self._limiter_sync("/info").
hyperliquid_get_spot_meta(ok) ==
    /\ Len(requests) < MaxRequests
    /\ LET known == StrKey("/info") \in HyperLiquidRateLimiterSync
           req == [client |-> "hyperliquid_get_spot_meta", bucket |-> "/info",
                   key |-> StrKey("/info"), took |-> known,
                   pc |-> IF known /\ ok THEN "done" ELSE "raised",
                   limiter_returned |-> known,
                   attempts |-> IF known THEN 1 ELSE 0, status |-> 0,
                   exc |-> IF known THEN NoExc
                           ELSE [type |-> "KeyError", code |-> PyInt(0)]]
       IN  /\ requests' = Append(requests, req)
           /\ network_calls' =
                IF known THEN SendRequest(Len(requests) + 1, req, FALSE)
                ELSE network_calls
    /\ UNCHANGED <<rl_now, rate_buckets, tokens_consumed>>
    /\ UNCHANGED notRlVars

\* Time passes: half a window, or just over a window.
advance_clock(d) ==
    /\ rl_now + d <= MaxTime
    /\ rl_now' = rl_now + d
    /\ UNCHANGED <<rate_buckets, requests, network_calls, tokens_consumed>>
    /\ UNCHANGED notRlVars

RlNext ==
    \/ \E base_url \in BaseUrls, method \in Methods :
         kucoin_fetch(base_url, method)
    \/ \E r \in 1..MaxRequests, status \in Statuses, body \in Bodies :
         fetch_async_done(r, status, body)
    \/ hyperliquid_place_order
    \/ hyperliquid_cancel_order
    \/ \E r \in 1..MaxRequests, ok \in BOOLEAN : hyperliquid_fetch_done(r, ok)
    \/ \E ok \in BOOLEAN : hyperliquid_get_meta(ok)
    \/ \E ok \in BOOLEAN : hyperliquid_get_spot_meta(ok)
    \/ \E d \in {Window \div 2, Window + 1} : advance_clock(d)

RlSpec == KucoinInit /\ [][RlNext]_vars

\* HTTP requests sent for bucket b at times in (t - Window, t].
CallsInWindow(b, t) ==
    Cardinality({i \in 1..Len(network_calls) :
                   /\ network_calls[i].bucket = b
                   /\ network_calls[i].at > t - Window
                   /\ network_calls[i].at <= t})

\* HTTP requests sent for bucket b so far.
CallsTo(b) ==
    Cardinality({i \in 1..Len(network_calls) : network_calls[i].bucket = b})

\* C19: with rate limiting enabled, the REST calls a KuCoin client issues
\* against the SPOT bucket and against the FUTURES bucket within any sliding
\* window of 30 seconds never exceed the bucket's capacity, and each issued
\* call has taken a token from its bucket.
C19_RateLimitSafety ==
    \A b \in Scopes :
        /\ \A i \in 1..Len(network_calls) :
             network_calls[i].bucket = b
                => CallsInWindow(b, network_calls[i].at)
                      <= rate_buckets[StrKey(b)].capacity
        /\ CallsTo(b) <= tokens_consumed[b]

\* C20: for every REST request, the limiter call for its endpoint class has
\* returned before the HTTP request is sent, and the HTTP request is sent by
\* the retry manager.
C20_LimitThenRetryWrappedCall ==
    \A i \in 1..Len(network_calls) :
        /\ network_calls[i].limiter_returned
        /\ network_calls[i].in_retry

\* The keys the limiter of request req holds a bucket for.
Configured(req) ==
    CASE req.client = "kucoin" -> DOMAIN rate_buckets
      [] req.client \in {"hyperliquid_place_order", "hyperliquid_cancel_order"}
           -> HyperLiquidRateLimiter
      [] OTHER -> HyperLiquidRateLimiterSync

\* C21: a limiter called with a key it holds no bucket for does nothing: the
\* call returns, no token is taken, nothing is raised, and the request goes
\* on to the network.
C21_UnknownKeyIsNoOp ==
    \A r \in 1..Len(requests) :
        requests[r].key \notin Configured(requests[r])
           => /\ requests[r].limiter_returned
              /\ ~requests[r].took
              /\ requests[r].exc.type # "KeyError"
              /\ \E i \in 1..Len(network_calls) : network_calls[i].req = r

\* HTTP statuses the retry predicate is to accept: 429 and every 5xx.
RetriableStatus(status) == status = 429 \/ (status >= 500 /\ status < 600)

\* C22: a response with status >= 400 raises the venue's error, and the
\* predicate the client registers with its retry manager accepts that error
\* exactly when the status is 429 or 5xx, so that such a call is retried
\* while retries are left.
C22_RetryPredicate ==
    \A r \in 1..Len(requests) :
        (requests[r].client = "kucoin" /\ requests[r].status >= 400)
           => /\ requests[r].exc.type = "KucoinError"
              /\ registered_retry_check(requests[r].exc)
                    <=> RetriableStatus(requests[r].status)
              /\ (RetriableStatus(requests[r].status)
                    /\ requests[r].attempts <= MaxRetries)
                    => requests[r].pc = "backoff"

(***************************************************************************)
(* Engine: start() and dispose()                                           *)
(*                                                                         *)
(* engine_pc names the step that runs next.  The order of the steps is     *)
(* data (StartOrder, DisposeOrder); each step is an action that runs when  *)
(* engine_pc names it and hands over to the step that follows it.  The     *)
(* tasks the TaskManager tracks run whenever the event loop does and write *)
(* to the Cache.                                                           *)
(***************************************************************************)

\* Engine.start(): _build(), cache.start(), strategy._on_start(), then
\* _start(): OMS, EMS, connectors, scheduler, task_manager.wait().
StartOrder ==
    <<"build", "cache_start", "on_start", "start_oms", "start_ems",
      "start_connectors", "start_scheduler", "wait">>

\* Engine._dispose() with the cache closed before the tasks are cancelled.
DisposeOrderCloseFirst ==
    <<"scheduler", "disconnect_public", "disconnect_private", "sleep",
      "cache_close", "task_manager_cancel">>

\* Engine._dispose(): scheduler, public connectors, private connectors,
\* sleep(0.2), task_manager.cancel(), cache.close().
DisposeOrder ==
    <<"scheduler", "disconnect_public", "disconnect_private", "sleep",
      "task_manager_cancel", "cache_close">>

\* The step after `step` in `order`, or `last` after the final one.
Following(order, step, last) ==
    LET i == CHOOSE k \in 1..Len(order) : order[k] = step
    IN  IF i = Len(order) THEN last ELSE order[i + 1]

StartStep(step) ==
    /\ engine_pc = step
    /\ engine_pc' = Following(StartOrder, step, "waiting")
    /\ engine_log' = Append(engine_log, step)

DisposeStep(step) ==
    /\ engine_pc = step
    /\ engine_pc' = Following(DisposeOrder, step, "disposed")

\* Engine.start() is called on a new engine.
engine_start ==
    /\ engine_pc = "new"
    /\ engine_pc' = StartOrder[1]
    /\ UNCHANGED <<engine_log, scheduler_started, connected_public,
                   connected_private, runtime_tasks, cache_memory,
                   cache_backend, last_write_pc>>
    /\ UNCHANGED notEngineVars

\* Engine._build(): the connectors the configuration asks for.
engine_build(npublic, nprivate) ==
    /\ StartStep("build")
    /\ connected_public' = npublic
    /\ connected_private' = nprivate
    /\ UNCHANGED <<scheduler_started, runtime_tasks, cache_memory,
                   cache_backend, last_write_pc>>
    /\ UNCHANGED notEngineVars

\* cache.start(): the periodic flush task starts.
cache_start ==
    /\ StartStep("cache_start")
    /\ runtime_tasks' = runtime_tasks \cup {"cache_sync"}
    /\ UNCHANGED <<scheduler_started, connected_public, connected_private,
                   cache_memory, cache_backend, last_write_pc>>
    /\ UNCHANGED notEngineVars

\* strategy._on_start().
strategy_on_start ==
    /\ StartStep("on_start")
    /\ UNCHANGED <<scheduler_started, connected_public, connected_private,
                   runtime_tasks, cache_memory, cache_backend, last_write_pc>>
    /\ UNCHANGED notEngineVars

\* Engine._start_oms(): every OMS starts its tasks.
start_oms ==
    /\ StartStep("start_oms")
    /\ runtime_tasks' = runtime_tasks \cup {"oms"}
    /\ UNCHANGED <<scheduler_started, connected_public, connected_private,
                   cache_memory, cache_backend, last_write_pc>>
    /\ UNCHANGED notEngineVars

\* Engine._start_ems(): every EMS starts its tasks.
start_ems ==
    /\ StartStep("start_ems")
    /\ runtime_tasks' = runtime_tasks \cup {"ems"}
    /\ UNCHANGED <<scheduler_started, connected_public, connected_private,
                   cache_memory, cache_backend, last_write_pc>>
    /\ UNCHANGED notEngineVars

\* Engine._start_connectors(): the private connectors connect and the
\* subscriptions are made; a subscription without a public connector raises
\* SubscriptionError out of start().
start_connectors(ok) ==
    /\ engine_pc = "start_connectors"
    /\ engine_pc' = IF ok THEN Following(StartOrder, "start_connectors", "waiting")
                    ELSE "start_failed"
    /\ engine_log' = Append(engine_log, "start_connectors")
    /\ UNCHANGED <<scheduler_started, connected_public, connected_private,
                   runtime_tasks, cache_memory, cache_backend, last_write_pc>>
    /\ UNCHANGED notEngineVars

\* Engine._start_scheduler().
start_scheduler ==
    /\ StartStep("start_scheduler")
    /\ scheduler_started' = TRUE
    /\ UNCHANGED <<connected_public, connected_private, runtime_tasks,
                   cache_memory, cache_backend, last_write_pc>>
    /\ UNCHANGED notEngineVars

\* await self._task_manager.wait(): start() blocks.
task_manager_wait ==
    /\ StartStep("wait")
    /\ UNCHANGED <<scheduler_started, connected_public, connected_private,
                   runtime_tasks, cache_memory, cache_backend, last_write_pc>>
    /\ UNCHANGED notEngineVars

\* Engine.dispose(), called by the owner once start() has returned or
\* raised: strategy._on_stop(), then _dispose().
engine_dispose ==
    /\ engine_pc \in {"waiting", "start_failed"}
    /\ engine_pc' = DisposeOrder[1]
    /\ engine_log' = Append(engine_log, "on_stop")
    /\ UNCHANGED <<scheduler_started, connected_public, connected_private,
                   runtime_tasks, cache_memory, cache_backend, last_write_pc>>
    /\ UNCHANGED notEngineVars

\* The scheduler is shut down if it was started.
scheduler_shutdown ==
    /\ DisposeStep("scheduler")
    /\ engine_log' = IF scheduler_started
                     THEN Append(engine_log, "scheduler_shutdown")
                     ELSE engine_log
    /\ UNCHANGED <<scheduler_started, connected_public, connected_private,
                   runtime_tasks, cache_memory, cache_backend, last_write_pc>>
    /\ UNCHANGED notEngineVars

\* for connector in self._public_connectors.values():
\*     await connector.disconnect()
disconnect_public ==
    /\ engine_pc = "disconnect_public"
    /\ engine_pc' = IF connected_public <= 1
                    THEN Following(DisposeOrder, "disconnect_public", "disposed")
                    ELSE engine_pc
    /\ connected_public' = IF connected_public > 0 THEN connected_public - 1
                           ELSE 0
    /\ engine_log' = IF connected_public > 0
                     THEN Append(engine_log, "disconnect_public")
                     ELSE engine_log
    /\ UNCHANGED <<scheduler_started, connected_private, runtime_tasks,
                   cache_memory, cache_backend, last_write_pc>>
    /\ UNCHANGED notEngineVars

\* for connector in self._private_connectors.values():
\*     await connector.disconnect()
disconnect_private ==
    /\ engine_pc = "disconnect_private"
    /\ engine_pc' = IF connected_private <= 1
                    THEN Following(DisposeOrder, "disconnect_private", "disposed")
                    ELSE engine_pc
    /\ connected_private' = IF connected_private > 0 THEN connected_private - 1
                            ELSE 0
    /\ engine_log' = IF connected_private > 0
                     THEN Append(engine_log, "disconnect_private")
                     ELSE engine_log
    /\ UNCHANGED <<scheduler_started, connected_public, runtime_tasks,
                   cache_memory, cache_backend, last_write_pc>>
    /\ UNCHANGED notEngineVars

\* await asyncio.sleep(0.2).
dispose_sleep ==
    /\ DisposeStep("sleep")
    /\ UNCHANGED <<engine_log, scheduler_started, connected_public,
                   connected_private, runtime_tasks, cache_memory,
                   cache_backend, last_write_pc>>
    /\ UNCHANGED notEngineVars

\* await self._task_manager.cancel(): every tracked task is cancelled and
\* awaited.
task_manager_cancel ==
    /\ DisposeStep("task_manager_cancel")
    /\ runtime_tasks' = {}
    /\ engine_log' = Append(engine_log, "task_manager_cancel")
    /\ UNCHANGED <<scheduler_started, connected_public, connected_private,
                   cache_memory, cache_backend, last_write_pc>>
    /\ UNCHANGED notEngineVars

\* await self._cache.close(): the in-memory contents are written to the
\* persistence backend.
cache_close ==
    /\ DisposeStep("cache_close")
    /\ cache_backend' = cache_memory
    /\ engine_log' = Append(engine_log, "cache_close")
    /\ UNCHANGED <<scheduler_started, connected_public, connected_private,
                   runtime_tasks, cache_memory, last_write_pc>>
    /\ UNCHANGED notEngineVars

\* A tracked task (an OMS or EMS task) applies an update to the Cache while
\* the event loop runs.
runtime_task_writes(t) ==
    /\ t \in runtime_tasks \ {"cache_sync"}
    /\ engine_pc \notin {"new", "disposed"}
    /\ cache_memory < MaxWrites
    /\ cache_memory' = cache_memory + 1
    /\ last_write_pc' = engine_pc
    /\ UNCHANGED <<engine_pc, engine_log, scheduler_started, connected_public,
                   connected_private, runtime_tasks, cache_backend>>
    /\ UNCHANGED notEngineVars

\* The periodic flush task of the Cache writes the contents to the backend.
cache_sync ==
    /\ "cache_sync" \in runtime_tasks
    /\ engine_pc \notin {"new", "disposed"}
    /\ cache_backend # cache_memory
    /\ cache_backend' = cache_memory
    /\ UNCHANGED <<engine_pc, engine_log, scheduler_started, connected_public,
                   connected_private, runtime_tasks, cache_memory,
                   last_write_pc>>
    /\ UNCHANGED notEngineVars

EngineNext ==
    \/ engine_start
    \/ \E npublic \in 0..MaxConnectors, nprivate \in 0..MaxConnectors :
         engine_build(npublic, nprivate)
    \/ cache_start
    \/ strategy_on_start
    \/ start_oms
    \/ start_ems
    \/ \E ok \in BOOLEAN : start_connectors(ok)
    \/ start_scheduler
    \/ task_manager_wait
    \/ engine_dispose
    \/ scheduler_shutdown
    \/ disconnect_public
    \/ disconnect_private
    \/ dispose_sleep
    \/ task_manager_cancel
    \/ cache_close
    \/ \E t \in {"oms", "ems"} : runtime_task_writes(t)
    \/ cache_sync

EngineSpec == KucoinInit /\ [][EngineNext]_vars

\* Positions of event e in the engine's log.
LogAt(e) == {i \in 1..Len(engine_log) : engine_log[i] = e}

\* Every occurrence of event a comes before every occurrence of event b.
AllBefore(a, b) == \A i \in LogAt(a), j \in LogAt(b) : i < j

\* C23: on dispose the scheduler is shut down before any connector is
\* disconnected, and every private connector is disconnected before any
\* public connector.
C23_ShutdownOrder ==
    /\ AllBefore("scheduler_shutdown", "disconnect_public")
    /\ AllBefore("scheduler_shutdown", "disconnect_private")
    /\ AllBefore("disconnect_private", "disconnect_public")

C25_StartOrder ==
    /\ \A e \in {"start_oms", "start_ems", "start_connectors"} :
         LogAt("on_start") # {} => /\ LogAt(e) # {}
                                   /\ AllBefore(e, "on_start")
    /\ AllBefore("on_start", "wait")

(***************************************************************************)
(* Set-up of the KuCoin private side: _init_account_balance,               *)
(* _init_position and _position_mode_check, which run one after the other  *)
(* when the connector is constructed.  Each makes one REST call through    *)
(* task_manager.run_sync, inside a try block whose except clause logs a    *)
(* warning; `ok` says whether the call returned a response.                *)
(***************************************************************************)

\* KucoinApiClient.get_api_v1_position_mode: the response, or KucoinError
\* when the mode is not 1.
get_api_v1_position_mode ==
    IF venue_position_mode # 1 THEN "KucoinError" ELSE "ok"

\* The Position _init_position builds for a signed amount: side is None
\* whether the amount is positive or not.
InitPosition(signed_amount) ==
    [side |-> None, signed_amount |-> signed_amount]

\* The connector is constructed for an account at the venue.
ks_construct(account_type, mode, balance, position) ==
    /\ ks_pc = "new"
    /\ ks_pc' = "init_account_balance"
    /\ ks_account_type' = account_type
    /\ venue_position_mode' = mode
    /\ venue_balance' = balance
    /\ venue_position' = IF account_type = "FUTURES" THEN position ELSE 0
    /\ UNCHANGED <<ks_cache_balance, ks_cache_position, ks_rest_ok, ks_warnings>>
    /\ UNCHANGED notKsVars

\* _init_account_balance: the balances are fetched (get_api_v1_accounts or
\* get_fapi_v1_account) and their type is logged; nothing is applied to the
\* Cache.  A failed call is logged.
kucoin_init_account_balance(ok) ==
    /\ ks_pc = "init_account_balance"
    /\ ks_pc' = "init_position"
    /\ ks_rest_ok' = (ks_rest_ok /\ ok)
    /\ ks_warnings' = IF ok THEN ks_warnings ELSE ks_warnings + 1
    /\ UNCHANGED <<ks_account_type, venue_position_mode, venue_balance,
                   venue_position, ks_cache_balance, ks_cache_position>>
    /\ UNCHANGED notKsVars

\* _init_position: nothing for a non-futures account; otherwise
\* get_api_v1_positions() and a Position applied to the Cache for each entry
\* of res.data.  A failed call is logged.
kucoin_init_position(ok) ==
    /\ ks_pc = "init_position"
    /\ ks_pc' = "position_mode_check"
    /\ IF ks_account_type # "FUTURES"
       THEN UNCHANGED <<ks_cache_position, ks_rest_ok, ks_warnings>>
       ELSE IF ok
       THEN /\ ks_cache_position' =
                 IF venue_position # 0 THEN <<InitPosition(venue_position)>>
                 ELSE <<>>
            /\ UNCHANGED <<ks_rest_ok, ks_warnings>>
       ELSE /\ ks_warnings' = ks_warnings + 1
            /\ ks_rest_ok' = FALSE
            /\ UNCHANGED ks_cache_position
    /\ UNCHANGED <<ks_account_type, venue_position_mode, venue_balance,
                   venue_position, ks_cache_balance>>
    /\ UNCHANGED notKsVars

\* _position_mode_check: for a futures account get_api_v1_position_mode() is
\* called and the mode logged; any exception, the KucoinError for a mode
\* other than 1 included, is logged as a warning.  The connector is
\* operational afterwards.
kucoin_position_mode_check(ok) ==
    /\ ks_pc = "position_mode_check"
    /\ ks_pc' = "operational"
    /\ IF ks_account_type = "FUTURES"
          /\ (~ok \/ get_api_v1_position_mode = "KucoinError")
       THEN ks_warnings' = ks_warnings + 1
       ELSE UNCHANGED ks_warnings
    /\ ks_rest_ok' = (ks_rest_ok /\ ok)
    /\ UNCHANGED <<ks_account_type, venue_position_mode, venue_balance,
                   venue_position, ks_cache_balance, ks_cache_position>>
    /\ UNCHANGED notKsVars

KsNext ==
    \/ \E account_type \in {"SPOT", "FUTURES"}, mode \in {1, 2},
          balance \in 0..MaxVenueAmount,
          position \in -MaxVenueAmount..MaxVenueAmount :
         ks_construct(account_type, mode, balance, position)
    \/ \E ok \in BOOLEAN : kucoin_init_account_balance(ok)
    \/ \E ok \in BOOLEAN : kucoin_init_position(ok)
    \/ \E ok \in BOOLEAN : kucoin_position_mode_check(ok)

KsSpec == KucoinInit /\ [][KsNext]_vars

\* C26: a private futures connector whose account is not in one-way mode
\* either switches the account to one-way mode or fails; it is never
\* operational while the account is in another mode.
C26_PositionModeCheck ==
    (ks_pc = "operational" /\ ks_account_type = "FUTURES")
       => venue_position_mode = 1

\* C27: once the private connector is set up and its REST calls were
\* answered, the balances and positions the venue holds have been applied to
\* the Cache.
C27_InitialStateSeed ==
    (ks_pc = "operational" /\ ks_rest_ok)
       => /\ ks_cache_balance = <<venue_balance>>
          /\ venue_position # 0
                => /\ ks_cache_position # <<>>
                   /\ ks_cache_position[1].signed_amount = venue_position

(***************************************************************************)
(* KucoinPublicConnector.request_klines                                    *)
(*                                                                         *)
(* A time is a record [sec, frac]: sec seconds and frac milliseconds.  The *)
(* venue holds NBars bars, one every BarSeconds, and answers a request     *)
(* with at most PageCap bars that start at or after `from`, oldest first   *)
(* or newest first.  kl_args.client is the API client the connector holds: *)
(* "KucoinApiClient", whose get_api_v1_market_candles is a coroutine       *)
(* function called without await and which has no get_fapi_v1_kline_query, *)
(* or "responding", a client whose kline methods return the response.      *)
(***************************************************************************)

Time(sec, frac) == [sec |-> sec, frac |-> frac]

\* Numbers of the bars that start at or after `from` seconds (all of them for
\* None), and the page the venue returns: the first PageCap of them.
BarsFrom(from) ==
    {k \in 1..NBars : from = <<>> \/ k * BarSeconds >= from[1]}

VenuePage(from, order) ==
    LET ks == BarsFrom(from)
        lo == CHOOSE k \in ks : \A j \in ks : k <= j
        n == IF ks = {} THEN 0
             ELSE IF Cardinality(ks) < PageCap THEN Cardinality(ks) ELSE PageCap
    IN  [i \in 1..n |->
           IF order = "ascending" THEN (lo + i - 1) * BarSeconds
           ELSE (lo + n - i) * BarSeconds]

\* The `from` the request carries: startAt = next_start for spot,
\* from_ = next_start // 1000 for futures.
RequestFrom(account_type, next_start) ==
    IF next_start = <<>> THEN <<>> ELSE <<next_start[1].sec>>

\* next_start after a page whose last entry starts at last_ts seconds:
\* last_ts + 1 (seconds) for spot, last_ms + 1 (milliseconds) for futures.
Advance(account_type, last_ts) ==
    IF account_type = "SPOT" THEN <<Time(last_ts + 1, 0)>>
    ELSE <<Time(last_ts, 1)>>

\* The entries of a page that are appended: all of them, or as many as
\* `remaining` allows.
Taken(entries, remaining) ==
    IF remaining = <<>> \/ remaining[1] >= Len(entries) THEN entries
    ELSE SubSeq(entries, 1, remaining[1])

\* request_klines up to its first REST call: the symbol and the account type
\* are checked and the paging state is set up.
request_klines(account_type, known, client, order, limit, start_time) ==
    /\ kl_pc = "idle"
    /\ kl_args' = [account_type |-> account_type, client |-> client,
                   order |-> order]
    /\ all_klines' = <<>>
    /\ IF ~known \/ account_type \notin {"SPOT", "FUTURES"}
       THEN /\ kl_pc' = "raised"
            /\ kl_exc' = "ValueError"
            /\ UNCHANGED <<kl_next_start, kl_remaining>>
       ELSE /\ kl_pc' = "paging"
            /\ kl_exc' = None
            /\ kl_next_start' = start_time
            /\ kl_remaining' = limit
    /\ UNCHANGED notKlVars

\* One turn of the paging loop: the REST call, the entries appended, and the
\* window advanced past the last entry of the page.
kline_page ==
    /\ kl_pc = "paging"
    /\ Len(all_klines) <= MaxKlines
    /\ IF kl_args.client = "KucoinApiClient"
       THEN /\ kl_pc' = "raised"
            /\ kl_exc' = "AttributeError"
            /\ UNCHANGED <<kl_next_start, kl_remaining, all_klines>>
       ELSE LET entries == VenuePage(RequestFrom(kl_args.account_type,
                                                 kl_next_start),
                                     kl_args.order)
                taken == Taken(entries, kl_remaining)
                left == IF kl_remaining = <<>> THEN <<>>
                        ELSE <<kl_remaining[1] - Len(taken)>>
            IN  /\ all_klines' = all_klines \o taken
                /\ kl_remaining' = left
                /\ kl_exc' = None
                /\ IF entries = <<>> \/ (left # <<>> /\ left[1] <= 0)
                   THEN /\ kl_pc' = "returned"
                        /\ UNCHANGED kl_next_start
                   ELSE /\ kl_pc' = "paging"
                        /\ kl_next_start' =
                             Advance(kl_args.account_type,
                                     entries[Len(entries)])
    /\ UNCHANGED kl_args
    /\ UNCHANGED notKlVars

\* The caller is done with the result and may call again.
klines_reset ==
    /\ kl_pc \in {"returned", "raised"}
    /\ kl_pc' = "idle"
    /\ kl_args' = NoKlArgs
    /\ kl_next_start' = <<>>
    /\ kl_remaining' = <<>>
    /\ all_klines' = <<>>
    /\ kl_exc' = None
    /\ UNCHANGED notKlVars

KlNext ==
    \/ \E account_type \in KucoinAccountTypes, known \in BOOLEAN,
          client \in {"KucoinApiClient", "responding"},
          order \in {"ascending", "descending"},
          limit \in {<<>>} \cup {<<n>> : n \in 1..NBars},
          start_time \in {<<>>, <<Time(0, 0)>>, <<Time(BarSeconds, 0)>>} :
         request_klines(account_type, known, client, order, limit, start_time)
    \/ kline_page
    \/ klines_reset

KlSpec == KucoinInit /\ [][KlNext]_vars

\* C28: request_klines returns a list whose start times are strictly
\* increasing, whatever the venue's page size and order and with range
\* bounds that include their end points; the only error it raises is the
\* ValueError for a symbol or account type it does not support.
C28_KlinesAscendingNoRepeat ==
    /\ kl_pc = "raised" => kl_exc = "ValueError"
    /\ kl_pc = "returned"
          => \A i, j \in 1..Len(all_klines) :
                i < j => all_klines[i] < all_klines[j]

Abs(x) == IF x < 0 THEN -x ELSE x

Position(side, signed_amount, entry_price) ==
    [side |-> side, signed_amount |-> signed_amount,
     entry_price |-> entry_price]

amount(position) == Abs(position.signed_amount)

is_closed(position) == amount(position) = 0

\* Balance._update_free.
update_free(balance, delta) == [balance EXCEPT !.free = @ + delta]

\* Cache.get_position(symbol).value_or(None): <<>> for None.
get_position ==
    IF mock_position # <<>> /\ ~is_closed(mock_position[1])
    THEN mock_position ELSE <<>>

\* MockLinearConnector.total_notional.
total_notional ==
    IF mock_position = <<>> \/ mock_book = 0 THEN 0
    ELSE amount(mock_position[1]) * mock_book

\* The Position _apply_position writes for an order, and the realised PnL it
\* adds to the quote balance.
IsSameDirection(position, side) ==
    \/ side = "BUY" /\ position.side = "LONG"
    \/ side = "SELL" /\ position.side = "SHORT"

RealizedPnl(position, side, order_amount, price) ==
    IF position = <<>> \/ IsSameDirection(position[1], side) THEN 0
    ELSE LET p == position[1]
             price_diff == IF p.side = "LONG" THEN price - p.entry_price
                           ELSE p.entry_price - price
             closed_amount == IF amount(p) < order_amount THEN amount(p)
                              ELSE order_amount
         IN  closed_amount * price_diff

AppliedPosition(position, side, order_amount, price) ==
    IF position = <<>> \/ is_closed(position[1])
    THEN IF side = "BUY" THEN Position("LONG", order_amount, price)
         ELSE Position("SHORT", -order_amount, price)
    ELSE LET p == position[1]
             same == IsSameDirection(p, side)
             new_amount == amount(p) + (IF same THEN order_amount
                                        ELSE -order_amount)
         IN  IF new_amount > 0
             THEN Position(p.side,
                           IF p.side = "LONG" THEN new_amount ELSE -new_amount,
                           IF same
                           THEN (order_amount * price
                                   + amount(p) * p.entry_price) \div new_amount
                           ELSE p.entry_price)
             ELSE IF new_amount < 0
             THEN LET flipped == IF p.side = "LONG" THEN "SHORT" ELSE "LONG"
                  IN  Position(flipped,
                               IF flipped = "LONG" THEN -new_amount
                               ELSE new_amount,
                               price)
             ELSE Position(None, 0, p.entry_price)

\* The averaged entry price of an addition is a whole number.
ExactAverage(position, side, order_amount, price) ==
    IF position = <<>> THEN TRUE
    ELSE IF ~IsSameDirection(position[1], side) THEN TRUE
    ELSE (order_amount * price
            + amount(position[1]) * position[1].entry_price)
           % (amount(position[1]) + order_amount) = 0

\* connect(): _init_position with no position persisted, then _init_balance
\* with no balance persisted.
mock_connect(initial_balance) ==
    /\ mock_pc = "new"
    /\ mock_pc' = "connected"
    /\ mock_balance' = <<[free |-> initial_balance, locked |-> 0]>>
    /\ UNCHANGED <<mock_position, mock_book, mock_orders, mock_result,
                   mock_reduce_only>>
    /\ UNCHANGED notMockVars

\* The public connector stores a bookl1 of the symbol in the Cache.
mock_bookl1(price) ==
    /\ mock_book' = price
    /\ mock_book # price
    /\ UNCHANGED <<mock_pc, mock_balance, mock_position, mock_orders,
                   mock_result, mock_reduce_only>>
    /\ UNCHANGED notMockVars

\* create_order: the checks, the leverage check on the notional after the
\* order, then _apply_position (realised PnL, the Position, the fee).
\* reduce_only is read from kwargs and stored on the Order; nothing else
\* reads it.
mock_create_order(side, order_amount, reduce_only) ==
    /\ mock_pc = "connected"
    /\ mock_orders < MaxOrders
    /\ mock_orders' = mock_orders + 1
    /\ mock_reduce_only' = reduce_only
    /\ \E position \in {get_position}, price \in {mock_book},
          balance \in {mock_balance[1]} :
         LET quote_balance == balance.free + balance.locked
             notional ==
                 IF position # <<>> /\ ~IsSameDirection(position[1], side)
                 THEN total_notional - order_amount * price
                 ELSE total_notional + order_amount * price
             fee == (order_amount * price) \div PriceUnit
             pnl == RealizedPnl(position, side, order_amount, price)
             written == AppliedPosition(position, side, order_amount, price)
         IN  /\ ExactAverage(position, side, order_amount, price)
             /\ IF order_amount <= 0 \/ price = 0
                THEN /\ mock_result' = "FAILED"
                     /\ UNCHANGED <<mock_balance, mock_position>>
                ELSE IF quote_balance = 0
                THEN /\ mock_result' = "ZeroDivisionError"
                     /\ UNCHANGED <<mock_balance, mock_position>>
                ELSE IF quote_balance > 0
                        /\ Abs(notional) > Leverage * quote_balance
                THEN /\ mock_result' = "FAILED"
                     /\ UNCHANGED <<mock_balance, mock_position>>
                ELSE /\ Abs(written.signed_amount) <= MaxPosition
                     /\ mock_result' = "PENDING"
                     /\ mock_position' = <<written>>
                     /\ mock_balance' =
                          <<update_free(update_free(balance, pnl), -fee)>>
    /\ UNCHANGED <<mock_pc, mock_book>>
    /\ UNCHANGED notMockVars

MockNext ==
    \/ \E initial_balance \in {k * PriceUnit : k \in 1..MaxPrice} :
         mock_connect(initial_balance)
    \/ \E price \in {k * PriceUnit : k \in 1..MaxPrice} : mock_bookl1(price)
    \/ \E side \in {"BUY", "SELL"}, order_amount \in 0..MaxAmount,
          reduce_only \in BOOLEAN :
         mock_create_order(side, order_amount, reduce_only)

MockSpec == KucoinInit /\ [][MockNext]_vars

\* C29: every Position written to the Cache, by KuCoin's position
\* initialisation or by a fill of the mock connector, is long when its
\* signed amount is positive, short when it is negative, and flat (no side)
\* when it is zero.
PositionConsistent(p) ==
    /\ p.signed_amount > 0 => p.side = "LONG"
    /\ p.signed_amount < 0 => p.side = "SHORT"
    /\ p.signed_amount = 0 => p.side \in {None, "FLAT"}

C29_PositionSideMatchesAmount ==
    /\ \A i \in 1..Len(ks_cache_position) :
          PositionConsistent(ks_cache_position[i])
    /\ \A i \in 1..Len(mock_position) : PositionConsistent(mock_position[i])

\* C30: the quote balance the mock connector keeps in the Cache has
\* total = free + locked >= 0 after every accepted order.
C30_BalanceTotalNonNegative ==
    \A i \in 1..Len(mock_balance) :
       mock_balance[i].free + mock_balance[i].locked >= 0

\* C35: after every order that create_order accepts, the notional of the
\* open position at the price of the check is at most leverage times the
\* quote balance; an order that is refused changes neither the position
\* nor the balance.
WithinLeverage(notional, balance) ==
    IF balance.free + balance.locked > 0
    THEN notional <= Leverage * (balance.free + balance.locked)
    ELSE notional = 0

C35_MockMarginInvariant ==
    [][(mock_orders' = mock_orders + 1)
          => /\ mock_result' = "PENDING"
                  => WithinLeverage(total_notional', mock_balance'[1])
             /\ mock_result' = "FAILED"
                  => UNCHANGED <<mock_position, mock_balance>>]_vars

\* C36: an order with reduce_only = true only reduces an open position:
\* when the mock connector accepts it, a position was open, its side is not
\* the other one afterwards, and its size has not grown.
C36_ReduceOnlyOnlyReduces ==
    [][(/\ mock_orders' = mock_orders + 1
        /\ mock_reduce_only'
        /\ mock_result' = "PENDING")
          => /\ get_position # <<>>
             /\ amount(mock_position'[1]) <= amount(get_position[1])
             /\ mock_position'[1].side \in {get_position[1].side, None}]_vars

(***************************************************************************)
(* create_batch_orders                                                     *)
(*                                                                         *)
(* An Order returned is [order, status, id]: the position in the batch of  *)
(* the submitted order it was built from, its status, and the id of the    *)
(* venue (<<>> when it has none).  The venue gives the i-th order of a     *)
(* batch the id VenueId(i).  batch_outcomes[i] is what the venue did with  *)
(* the i-th order: accepted, rejected, or unsent when no request for it    *)
(* reached the venue.                                                      *)
(***************************************************************************)

BatchOrders ==
    UNION {[1..n -> [known : BOOLEAN, is_market : BOOLEAN]] : n \in 1..MaxBatch}

VenueId(i) == i

BatchOrder(i, status, id) == [order |-> i, status |-> status, id |-> id]

\* The except branch of HyperLiquid's create_batch_orders: one FAILED Order
\* per submitted order.
AllFailed(n) == [i \in 1..n |-> BatchOrder(i, "FAILED", <<>>)]

\* The loop over zip(orders, statuses) from entry i on. res_batch_order is
\* <<>> while the name is unbound, else <<the Order it is bound to>>. A
\* status with an error binds res_batch_order to a FAILED Order; an accepted
\* status binds `order`, not res_batch_order; each turn appends
\* res_batch_order, which raises UnboundLocalError while it is unbound.
RECURSIVE HlZipLoop(_, _, _, _)
HlZipLoop(i, statuses, res_batch_order, res_batch_orders) ==
    IF i > Len(statuses) THEN [exc |-> None, orders |-> res_batch_orders]
    ELSE IF statuses[i] = "rejected"
    THEN HlZipLoop(i + 1, statuses, <<BatchOrder(i, "FAILED", <<>>)>>,
                   Append(res_batch_orders, BatchOrder(i, "FAILED", <<>>)))
    ELSE IF res_batch_order = <<>>
    THEN [exc |-> "UnboundLocalError", orders |-> res_batch_orders]
    ELSE HlZipLoop(i + 1, statuses, res_batch_order,
                   Append(res_batch_orders, res_batch_order[1]))

\* HyperLiquidPrivateConnector.create_batch_orders up to place_orders.
hl_create_batch_orders(orders) ==
    /\ batch_pc = "idle"
    /\ batch_orders' = orders
    /\ batch_pc' = IF \E i \in 1..Len(orders) :
                         ~orders[i].known \/ orders[i].is_market
                   THEN "raised" ELSE "hl_await"
    /\ UNCHANGED <<batch_account_type, batch_outcomes, batch_results>>
    /\ UNCHANGED notBatchVars

\* create_batch_orders from the answer of place_orders: the statuses of the
\* venue, one per order, or an exception of the request.
hl_place_orders_done(ok, statuses) ==
    /\ batch_pc = "hl_await"
    /\ Len(statuses) = Len(batch_orders)
    /\ batch_pc' = "returned"
    /\ IF ~ok
       THEN /\ batch_outcomes' = [i \in 1..Len(batch_orders) |-> "unsent"]
            /\ batch_results' = AllFailed(Len(batch_orders))
       ELSE /\ batch_outcomes' = statuses
            /\ LET loop == HlZipLoop(1, statuses, <<>>, <<>>)
               IN  batch_results' = IF loop.exc = None THEN loop.orders
                                    ELSE AllFailed(Len(batch_orders))
    /\ UNCHANGED <<batch_orders, batch_account_type>>
    /\ UNCHANGED notBatchVars

\* KucoinOrderManagementSystem.create_batch_orders: the call.
kucoin_create_batch_orders(account_type, orders) ==
    /\ batch_pc = "idle"
    /\ batch_pc' = "kucoin_loop"
    /\ batch_orders' = orders
    /\ batch_account_type' = account_type
    /\ UNCHANGED <<batch_outcomes, batch_results>>
    /\ UNCHANGED notBatchVars

\* One turn of its loop: create_order for the next order. An unknown symbol
\* (ValueError), an account type no branch of create_order serves
\* (UnboundLocalError) and the futures branch, whose post_fapi_v1_order the
\* API client does not have (AttributeError), end in a FAILED Order without
\* a request; the spot request is accepted or fails.
kucoin_batch_create_order(accepted) ==
    /\ batch_pc = "kucoin_loop"
    /\ LET i == Len(batch_results) + 1
           via_rest == batch_orders[i].known /\ batch_account_type = "SPOT"
           outcome == IF ~via_rest THEN "unsent"
                      ELSE IF accepted THEN "accepted" ELSE "rejected"
       IN  /\ batch_outcomes' = Append(batch_outcomes, outcome)
           /\ batch_results' =
                Append(batch_results,
                       IF outcome = "accepted"
                       THEN BatchOrder(i, "PENDING", <<VenueId(i)>>)
                       ELSE BatchOrder(i, "FAILED", <<>>))
           /\ batch_pc' = IF i = Len(batch_orders) THEN "returned"
                          ELSE "kucoin_loop"
    /\ UNCHANGED <<batch_orders, batch_account_type>>
    /\ UNCHANGED notBatchVars

\* The caller has its answer; the next batch may be submitted.
batch_reset ==
    /\ batch_pc \in {"returned", "raised"}
    /\ batch_pc' = "idle"
    /\ batch_orders' = <<>>
    /\ batch_account_type' = None
    /\ batch_outcomes' = <<>>
    /\ batch_results' = <<>>
    /\ UNCHANGED notBatchVars

BatchNext ==
    \/ \E orders \in BatchOrders : hl_create_batch_orders(orders)
    \/ \E ok \in BOOLEAN,
          statuses \in UNION {[1..n -> {"accepted", "rejected"}] :
                                 n \in 1..MaxBatch} :
         hl_place_orders_done(ok, statuses)
    \/ \E account_type \in KucoinAccountTypes, orders \in BatchOrders :
         kucoin_create_batch_orders(account_type, orders)
    \/ \E accepted \in BOOLEAN : kucoin_batch_create_order(accepted)
    \/ batch_reset

BatchSpec == KucoinInit /\ [][BatchNext]_vars

\* C31: create_batch_orders returns one Order per submitted order, in the
\* order of submission, and each is PENDING with the venue's id when the
\* venue accepted that order and FAILED when it rejected it or no request
\* for it succeeded.
C31_BatchOrdersOneToOne ==
    batch_pc = "returned"
       => /\ Len(batch_results) = Len(batch_orders)
          /\ \A i \in 1..Len(batch_results) :
                /\ batch_results[i].order = i
                /\ batch_results[i] =
                     IF batch_outcomes[i] = "accepted"
                     THEN BatchOrder(i, "PENDING", <<VenueId(i)>>)
                     ELSE BatchOrder(i, "FAILED", <<>>)

(***************************************************************************)
(* _subscribe calls that overlap                                           *)
(*                                                                         *)
(* Several coroutines call _subscribe of one client while it has no        *)
(* transport: each runs up to `await self.connect()`, is suspended there,  *)
(* and goes on when connect() has returned.  The lists passed name no      *)
(* descriptor twice.  The transport is reduced to whether the client holds *)
(* one.                                                                    *)
(***************************************************************************)

Callers == 1..MaxCallers

\* The descriptor lists without a repeated element.
DistinctTopicLists == {q \in TopicLists : FirstSeen(q) = q}

ws_client_new(v) ==
    /\ sub_venue = None
    /\ sub_venue' = v
    /\ UNCHANGED <<sub_connected, sub_stored, sub_sent, sub_pc, sub_new>>
    /\ UNCHANGED notSubVars

\* KucoinWSClient._subscribe up to `await self.connect()`, and to its end
\* when connect() returns at once: the keys are filtered and appended in one
\* loop before the await.
overlap_kucoin_subscribe(c, topics) ==
    /\ sub_venue = "kucoin"
    /\ sub_pc[c] = "idle"
    /\ LET r == KucoinFilter(sub_stored, topics)
       IN  IF r.new = <<>>
           THEN UNCHANGED <<sub_stored, sub_sent, sub_pc, sub_new>>
           ELSE /\ sub_stored' = r.stored
                /\ IF sub_connected
                   THEN /\ sub_sent' = sub_sent \o KucoinSubscribePayload(r.new)
                        /\ UNCHANGED <<sub_pc, sub_new>>
                   ELSE /\ sub_pc' = [sub_pc EXCEPT ![c] = "connecting"]
                        /\ sub_new' = [sub_new EXCEPT ![c] = r.new]
                        /\ UNCHANGED sub_sent
    /\ UNCHANGED <<sub_venue, sub_connected>>
    /\ UNCHANGED notSubVars

\* HyperLiquidWSClient._subscribe up to `await self.connect()`, and to its
\* end when connect() returns at once: msgs is filtered before the await,
\* the messages are appended and sent after it.
overlap_hyperliquid_subscribe(c, msgs) ==
    /\ sub_venue = "hyperliquid"
    /\ sub_pc[c] = "idle"
    /\ LET fresh == HyperliquidFilter(sub_stored, msgs)
       IN  IF sub_connected
           THEN /\ sub_stored' = sub_stored \o fresh
                /\ sub_sent' = sub_sent \o HyperliquidPayload(fresh, "subscribe")
                /\ UNCHANGED <<sub_pc, sub_new>>
           ELSE /\ sub_pc' = [sub_pc EXCEPT ![c] = "connecting"]
                /\ sub_new' = [sub_new EXCEPT ![c] = fresh]
                /\ UNCHANGED <<sub_stored, sub_sent>>
    /\ UNCHANGED <<sub_venue, sub_connected>>
    /\ UNCHANGED notSubVars

\* connect() has returned in a suspended caller: the rest of _subscribe.
overlap_subscribe_resume(c) ==
    /\ sub_pc[c] = "connecting"
    /\ sub_connected' = TRUE
    /\ sub_pc' = [sub_pc EXCEPT ![c] = "idle"]
    /\ sub_new' = [sub_new EXCEPT ![c] = <<>>]
    /\ IF sub_venue = "kucoin"
       THEN /\ sub_sent' = sub_sent \o KucoinSubscribePayload(sub_new[c])
            /\ UNCHANGED sub_stored
       ELSE /\ sub_stored' = sub_stored \o sub_new[c]
            /\ sub_sent' = sub_sent
                             \o HyperliquidPayload(sub_new[c], "subscribe")
    /\ UNCHANGED sub_venue
    /\ UNCHANGED notSubVars

SubNext ==
    \/ \E v \in {"kucoin", "hyperliquid"} : ws_client_new(v)
    \/ \E c \in Callers, topics \in DistinctTopicLists :
         overlap_kucoin_subscribe(c, topics)
    \/ \E c \in Callers, msgs \in DistinctTopicLists :
         overlap_hyperliquid_subscribe(c, msgs)
    \/ \E c \in Callers : overlap_subscribe_resume(c)

SubSpec == KucoinInit /\ [][SubNext]_vars

\* Copies of descriptor d in the stored list (KucoinWSClient stores the key
\* of d, HyperLiquidWSClient d itself) and subscribe frames sent for it.
StoredCopies(d) ==
    IF sub_venue = "kucoin"
    THEN Len(SelectSeq(sub_stored, LAMBDA x : x = KeyOf(d)))
    ELSE Len(SelectSeq(sub_stored, LAMBDA x : x = d))

FramesFor(d) == Len(SelectSeq(sub_sent, LAMBDA f : Covers(f, d)))

\* C38: also when subscribe calls for one descriptor overlap, the stored
\* list holds at most one copy of it and at most one subscribe frame is
\* sent for it.
C38_OverlappingSubscribeDeduplicated ==
    \A d \in Descriptors : StoredCopies(d) <= 1 /\ FramesFor(d) <= 1

\* ---------------------------------------------------------------------------
\* Engine._start_connectors: the kline and bookl2 subscription passes
\* ---------------------------------------------------------------------------

\* Instrument symbols, each listed on one exchange (InstrumentId.exchange).
InstrumentSymbols == {"A", "B", "C"}

ExchangeOf(symbol) ==
    IF symbol \in {"A", "B"} THEN "kucoin" ELSE "hyperliquid"

\* exchange.instrument_id_to_account_type: each exchange manager answers
\* with its one public account type, whatever the instrument.
exchange_account_type(symbol) ==
    IF ExchangeOf(symbol) = "kucoin" THEN "SPOT" ELSE "MAINNET"

PublicAccountTypes == {"SPOT", "MAINNET"}

\* The symbol lists one interval (level) can be declared with.
SymbolLists ==
    {<<"A">>, <<"B">>, <<"C">>, <<"A", "B">>, <<"A", "C">>, <<"B", "C">>,
     <<"A", "B", "C">>}

\* Declarations of the strategy for one data type: a dict from interval
\* (level) to symbols, read in insertion order; keys are distinct.
Declarations ==
    {s \in UNION {[1..n -> [param : 1..MaxIntervals, symbols : SymbolLists]]
                    : n \in 1..MaxIntervals} :
        \A i, j \in 1..Len(s) : i # j => s[i].param # s[j].param}

\* account_symbols[account_type].append(symbol) on a defaultdict(list).
RECURSIVE DictAppend(_, _, _)
DictAppend(d, account_type, symbol) ==
    IF d = <<>>
    THEN <<[account_type |-> account_type, symbols |-> <<symbol>>]>>
    ELSE IF Head(d).account_type = account_type
         THEN <<[Head(d) EXCEPT !.symbols = Append(@, symbol)]>> \o Tail(d)
         ELSE <<Head(d)>> \o DictAppend(Tail(d), account_type, symbol)

\* The inner `for symbol in symbols` loop of one interval (level).
RECURSIVE GroupSymbols(_, _)
GroupSymbols(d, symbols) ==
    IF symbols = <<>>
    THEN d
    ELSE GroupSymbols(
             DictAppend(d, exchange_account_type(Head(symbols)),
                        Head(symbols)),
             Tail(symbols))

\* The `for account_type, symbols in account_symbols.items()` loop of one
\* interval (level): the calls made until a connector is missing.
RECURSIVE SubscribeCalls(_, _, _)
SubscribeCalls(d, connectors, param) ==
    IF d = <<>> \/ Head(d).account_type \notin connectors
    THEN <<>>
    ELSE <<[account_type |-> Head(d).account_type,
            symbols |-> Head(d).symbols, param |-> param]>>
         \o SubscribeCalls(Tail(d), connectors, param)

\* Whether that loop raises SubscriptionError.
ConnectorMissing(d, connectors) ==
    \E i \in 1..Len(d) : d[i].account_type \notin connectors

\* _start_connectors reaches `case DataType.KLINE` or `case DataType.BOOKL2`
\* with the strategy's declaration; account_symbols is created once, before
\* the loop over the intervals (levels).
start_subscriptions(data_type, sub, connectors) ==
    /\ sc_pc = "idle"
    /\ sc_data_type = None
    /\ sc_pc' = "subscribing"
    /\ sc_data_type' = data_type
    /\ sc_sub' = sub
    /\ sc_connectors' = connectors
    /\ sc_next' = 1
    /\ account_symbols' = <<>>
    /\ sc_calls' = <<>>
    /\ UNCHANGED notScVars

\* One pass of `for interval, symbols in sub.items()` (or level): the symbols
\* are appended to account_symbols, then every entry of account_symbols is
\* subscribed at this interval (level).
subscribe_interval ==
    /\ sc_pc = "subscribing"
    /\ sc_next <= Len(sc_sub)
    /\ \E d \in {GroupSymbols(account_symbols, sc_sub[sc_next].symbols)} :
          /\ account_symbols' = d
          /\ sc_calls' = sc_calls
                \o SubscribeCalls(d, sc_connectors, sc_sub[sc_next].param)
          /\ sc_pc' = IF ConnectorMissing(d, sc_connectors) THEN "error"
                      ELSE IF sc_next = Len(sc_sub) THEN "done"
                      ELSE "subscribing"
    /\ sc_next' = sc_next + 1
    /\ UNCHANGED <<sc_data_type, sc_sub, sc_connectors>>
    /\ UNCHANGED notScVars

\* A later run starts from a fresh engine.
sc_reset ==
    /\ sc_pc \in {"done", "error"}
    /\ sc_pc' = "idle"
    /\ sc_data_type' = None
    /\ sc_sub' = <<>>
    /\ sc_connectors' = {}
    /\ sc_next' = 1
    /\ account_symbols' = <<>>
    /\ sc_calls' = <<>>
    /\ UNCHANGED notScVars

ScNext ==
    \/ \E data_type \in {"kline", "bookl2"}, sub \in Declarations,
          connectors \in SUBSET PublicAccountTypes :
          start_subscriptions(data_type, sub, connectors)
    \/ subscribe_interval
    \/ sc_reset

ScSpec == KucoinInit /\ [][ScNext]_vars

\* Whether the strategy declared symbol at interval (level) param.
Requested(symbol, param) ==
    \E i \in 1..Len(sc_sub) :
        /\ sc_sub[i].param = param
        /\ \E j \in 1..Len(sc_sub[i].symbols) : sc_sub[i].symbols[j] = symbol

\* C40: every subscribe_kline (subscribe_bookl2) call that _start_connectors
\* issues names only symbols the strategy declared at that call's interval
\* (level): no (symbol, interval) or (symbol, level) pair is subscribed that
\* was not requested.
C40_SubscribesOnlyRequestedPairs ==
    \A k \in 1..Len(sc_calls) :
        \A j \in 1..Len(sc_calls[k].symbols) :
            Requested(sc_calls[k].symbols[j], sc_calls[k].param)

RegistrySpec == Init /\ [][RegistryNext]_vars

\* The registry and the WS client side by side.
Next ==
    \/ RegistryNext \/ WSNext \/ OmsNext \/ EmsNext \/ TwapNext \/ RlNext
    \/ EngineNext \/ KsNext \/ KlNext \/ MockNext \/ BatchNext
    \/ WsPrivateNext \/ WsApiNext \/ SubNext \/ ScNext

Spec == Init /\ [][Next]_vars

====
